---- MODULE Spec2Model ----
(***************************************************************************)
(* The debug session orchestrator of haocheng (_run_dap): registration of  *)
(* breakpoints, the launch, the stop/continue loop, the timeout gate and   *)
(* the teardown, against an adapter that may answer every request in any   *)
(* of the ways the client library allows.                                  *)
(*                                                                         *)
(* One step of the model is the code between two suspension points of the  *)
(* coroutine: a request to the adapter together with everything the        *)
(* orchestrator does with the answer until it awaits the next request.     *)
(***************************************************************************)
EXTENDS Integers, Sequences, FiniteSets, TLC

VARIABLES
    pc,           \* the request the coroutine issues next, or how it ended
    breakpoints,  \* the BreakpointSpec list (locations rewritten in place)
    timeout_sec,  \* Optional budget handed to _run_dap
    entry,        \* where the session was entered, and the timeout_sec given there
    stdin_bytes,  \* Optional input for the debuggee
    files,        \* the temp files stdin, stdout, stderr: "none", "created", "unlinked"
    stdio_read,   \* whether result.stdout and result.stderr were read from the files
    si,           \* index of the spec the registration loop is at
    id_to_spec,   \* dict: adapter id -> index of its spec in breakpoints
    reports,      \* result.reports, a dict kept in insertion order
    timeout,      \* result.timeout
    exit_code,    \* result.exit_code (Optional)
    signal,       \* result.signal (Optional)
    stopped,      \* the view launch/continue returned last
    hit_times_before, \* history: each report's hit_times when that view arrived
    bi,           \* index in hitBreakpointIds of the id being recorded
    vi,           \* index in spec.inline_expr of the expression evaluated next
    hit_info,     \* the BreakpointHitInfo under construction
    clock,        \* time.monotonic() - start_ts
    req,          \* the request this step sent to the adapter ("none": nothing sent)
    answered,     \* whether the adapter answered that request
    response,     \* what set_breakpoint, remove_breakpoint or evaluate was answered with
    raised        \* the exception that left _run_dap ("none": nothing raised)

vars == <<pc, breakpoints, timeout_sec, entry, stdin_bytes, files, stdio_read, si, id_to_spec, reports, timeout,
          exit_code, signal, stopped, hit_times_before, bi, vi, hit_info, clock, req,
          answered,
          response, raised>>

-----------------------------------------------------------------------------
(* Bounds of the model *)

MaxHits == 2

-----------------------------------------------------------------------------
(* Optional values *)

None == <<>>
Some(x) == <<x>>
IsNone(o) == o = <<>>
Val(o) == o[1]

Min(a, b) == IF a < b THEN a ELSE b

-----------------------------------------------------------------------------
(* Strings that the code splits or parses are sequences of tokens: a path  *)
(* is its components (an absolute one starts with "/"), a location is a    *)
(* path, the token ":" and the characters of the line number.              *)

RECURSIVE LastIndexOf(_, _, _)
LastIndexOf(s, tok, i) ==
    IF i = 0 THEN 0
    ELSE IF s[i] = tok THEN i ELSE LastIndexOf(s, tok, i - 1)

\* str.rsplit(":", 1): one part when there is no ":", else the two parts around the last ":"
RSplit(loc) ==
    LET k == LastIndexOf(loc, ":", Len(loc))
    IN  IF k = 0 THEN <<loc>>
        ELSE <<SubSeq(loc, 1, k - 1), SubSeq(loc, k + 1, Len(loc))>>

\* a tuple unpacking "a, b = loc.rsplit(':', 1)" raises ValueError on one part
Unpacks(loc) == Len(RSplit(loc)) = 2

DigitVal == ("0" :> 0) @@ ("1" :> 1) @@ ("2" :> 2) @@ ("3" :> 3) @@ ("4" :> 4) @@
            ("5" :> 5) @@ ("6" :> 6) @@ ("7" :> 7) @@ ("8" :> 8) @@ ("9" :> 9)

RECURSIVE DigitsValue(_, _)
DigitsValue(s, acc) ==
    IF s = <<>> THEN acc ELSE DigitsValue(Tail(s), 10 * acc + DigitVal[Head(s)])

IsDigits(s) == s # <<>> /\ \A i \in 1..Len(s) : s[i] \in DOMAIN DigitVal

\* int(text): None stands for the ValueError
ParseInt(s) ==
    IF IsDigits(s) THEN Some(DigitsValue(s, 0))
    ELSE IF s # <<>> /\ s[1] \in {"-", "+"} /\ IsDigits(Tail(s))
         THEN Some((IF s[1] = "-" THEN -1 ELSE 1) * DigitsValue(Tail(s), 0))
         ELSE None

\* BreakpointSpec.file_path and BreakpointSpec.line_no (None: the property raises)
file_path(spec) == IF Unpacks(spec.location) THEN Some(RSplit(spec.location)[1]) ELSE None
line_no(spec) == IF Unpacks(spec.location) THEN ParseInt(RSplit(spec.location)[2]) ELSE None

IsAbsolute(p) == p # <<>> /\ p[1] = "/"
PathName(p) == IF p = <<>> THEN "" ELSE p[Len(p)]
\* repo_dir / file_path: an absolute right operand replaces the left one
JoinPath(dir, p) == IF IsAbsolute(p) THEN p ELSE dir \o p

\* The files of the host
ExistingFiles == { <<"/", "src", "a.c">>, <<"/", "repo", "b.c">>, <<"/", "src", "b.c">> }
Exists(p) == p \in ExistingFiles

\* faulty variant: the source map is tried before the repo dir
NormalizeOneMapFirst(loc, repo_dir, source_map) ==
    LET parts == RSplit(loc)
        fp    == parts[1]
        ln    == parts[2]
        guess == JoinPath(Val(repo_dir), fp)
        named == SelectSeq(Val(source_map), LAMBDA p : PathName(p) = PathName(fp))
    IN  IF IsAbsolute(fp) /\ Exists(fp) THEN fp \o <<":">> \o ln
        ELSE IF ~IsNone(source_map) /\ named # <<>> THEN named[1] \o <<":">> \o ln
        ELSE IF ~IsNone(repo_dir) /\ Exists(guess) THEN guess \o <<":">> \o ln
        ELSE loc

NormalizeOne(loc, repo_dir, source_map) ==
    LET parts == RSplit(loc)
        fp    == parts[1]
        ln    == parts[2]
        guess == JoinPath(Val(repo_dir), fp)
        named == SelectSeq(Val(source_map), LAMBDA p : PathName(p) = PathName(fp))
    IN  IF IsAbsolute(fp) /\ Exists(fp) THEN fp \o <<":">> \o ln
        ELSE IF ~IsNone(repo_dir) /\ Exists(guess) THEN guess \o <<":">> \o ln
        ELSE IF ~IsNone(source_map) /\ named # <<>> THEN named[1] \o <<":">> \o ln
        ELSE loc

\* _normalize_locations raises ValueError at the first location that does not unpack
NormalizeRaises(bps) == \E i \in 1..Len(bps) : ~Unpacks(bps[i].location)

\* the specs as _normalize_locations leaves them: rewritten in place, up to
\* the first one it raises at
_normalize_locations(bps, repo_dir, source_map) ==
    [i \in 1..Len(bps) |->
        IF \A j \in 1..i : Unpacks(bps[j].location)
        THEN [bps[i] EXCEPT !.location = NormalizeOne(@, repo_dir, source_map)]
        ELSE bps[i]]

-----------------------------------------------------------------------------
(* The inputs: breakpoint specs and the timeout budget *)

BreakpointSpec(loc, limit, exprs, stack) ==
    [location |-> loc, hit_limit |-> limit, inline_expr |-> exprs,
     print_call_stack |-> stack]

SpecLoop == BreakpointSpec(<<"/", "src", "a.c", ":", "5">>, 1, <<"i", "sum">>, TRUE)
SpecBody == BreakpointSpec(<<"a.c", ":", "1", "2">>, 2, <<>>, FALSE)
SpecExit == BreakpointSpec(<<"b.c", ":", "7">>, 2, <<>>, TRUE)
\* the file and line of SpecLoop, given relative, with other settings
SpecShared == BreakpointSpec(<<"a.c", ":", "5">>, 2, <<>>, TRUE)
\* a line that is no number, and a location without ":"
SpecBadLine == BreakpointSpec(<<"/", "src", "a.c", ":", "x">>, 1, <<>>, FALSE)
SpecNoColon == BreakpointSpec(<<"/", "src", "a.c">>, 1, <<>>, FALSE)
\* an absolute path that exists in the repo dir, one that does not exist,
\* and a name that is found nowhere
SpecInRepo == BreakpointSpec(<<"/", "repo", "b.c", ":", "7">>, 1, <<>>, FALSE)
SpecAbsMissing == BreakpointSpec(<<"/", "gone", "b.c", ":", "7">>, 1, <<>>, FALSE)
SpecNowhere == BreakpointSpec(<<"c.c", ":", "9">>, 1, <<>>, FALSE)
\* a line that is a number, but not a positive one
SpecZeroLine == BreakpointSpec(<<"/", "src", "a.c", ":", "0">>, 1, <<>>, FALSE)
\* a spec whose one expression is a member access
SpecMember == BreakpointSpec(<<"/", "src", "a.c", ":", "5">>, 1, <<"p->x">>, FALSE)

\* the spec lists a run is given
SpecLists ==
    { <<>>,
      <<SpecLoop>>,
      <<SpecBody>>,
      <<SpecLoop, SpecBody>>,
      <<SpecBody, SpecLoop>>,
      <<SpecLoop, SpecLoop>>,
      <<SpecLoop, SpecExit, SpecShared>>,
      <<SpecBadLine>>,
      <<SpecBadLine, SpecLoop>>,
      <<SpecNoColon>>,
      <<SpecBody, SpecNoColon>> }

TimeoutChoices == {None, Some(0), Some(1)}

\* input is supplied in some of the runs on the shortest spec lists
StdinChoices(bps) ==
    IF bps \in {<<>>, <<SpecBody>>, <<SpecNoColon>>} THEN {None, Some("1\n")} ELSE {None}
\* the clock is followed until every budget is spent
ClockCap == CHOOSE c \in 0..Cardinality(TimeoutChoices) :
                /\ \A t \in TimeoutChoices : ~IsNone(t) => Val(t) <= c
                /\ \E t \in TimeoutChoices : ~IsNone(t) /\ Val(t) = c
\* time one adapter round trip may take; the clock is read by the gate alone,
\* and only when there is a budget: without one the time taken leaves no trace
Delays == IF IsNone(timeout_sec) THEN {0} ELSE {0, 1}
Tick(c, d) == Min(c + d, ClockCap)

RepoDirs == {None, Some(<<"/", "repo">>)}
\* what _get_source_map returns
SourceMaps == {<<<<"/", "src", "b.c">>, <<"/", "lib", "b.c">>, <<"/", "src", "a.c">>>>}

-----------------------------------------------------------------------------
(* What the adapter sends *)

StackFrame(name, source, line) == [name |-> name, source |-> source, line |-> line]
Source(name, path) == [name |-> name, path |-> path]

FrameWork == StackFrame("work", Some(Source("a.c", Some(<<"/", "private", "src", "a.c">>))), 5)
FrameMain == StackFrame("main", Some(Source("a.c", None)), 12)
FrameLibc == StackFrame("start", None, 0)


StoppedEvent(reason, hasIds, ids, description) ==
    [type |-> "StoppedEvent", reason |-> reason, hasHitBreakpointIds |-> hasIds,
     hitBreakpointIds |-> ids, description |-> description, exitCode |-> 0]
ExitedEvent(code) ==
    [type |-> "ExitedEvent", reason |-> "", hasHitBreakpointIds |-> FALSE,
     hitBreakpointIds |-> None, description |-> None, exitCode |-> code]
OutputEvent ==
    [type |-> "OutputEvent", reason |-> "", hasHitBreakpointIds |-> FALSE,
     hitBreakpointIds |-> None, description |-> None, exitCode |-> 0]

BreakpointStop(ids) == StoppedEvent("breakpoint", TRUE, Some(ids), None)
ExceptionStop == StoppedEvent("exception", FALSE, None, Some("EXC_BAD_ACCESS"))
ExceptionStopBare == StoppedEvent("exception", FALSE, None, None)
StepStop == StoppedEvent("step", FALSE, None, None)

StoppedDebuggerView(frames, events) ==
    [kind |-> "StoppedDebuggerView", frames |-> frames, events |-> events]
EventListView(events) == [kind |-> "EventListView", frames |-> <<>>, events |-> events]
ErrorView == [kind |-> "ErrorResponse", frames |-> <<>>, events |-> <<>>]
NoView == [kind |-> "None", frames |-> <<>>, events |-> <<>>]

\* the stop views the loop answers with a continue_execution and nothing else
ShapeViews ==
    { StoppedDebuggerView(<<>>, <<BreakpointStop(<<1>>)>>),
      StoppedDebuggerView(<<FrameMain>>, <<OutputEvent>>),
      StoppedDebuggerView(<<FrameMain>>, <<StepStop>>),
      StoppedDebuggerView(<<FrameMain>>, <<StepStop, ExceptionStop>>),
      StoppedDebuggerView(<<FrameMain>>, <<BreakpointStop(<<1>>), BreakpointStop(<<2>>)>>),
      StoppedDebuggerView(<<FrameMain>>, <<StoppedEvent("breakpoint", FALSE, None, None)>>) }

\* hitBreakpointIds is null
NullIdsView ==
    StoppedDebuggerView(<<FrameMain>>, <<StoppedEvent("breakpoint", TRUE, None, None)>>)

\* breakpoint stops with ids (3 is an id no registration was answered with)
HitViews ==
    { StoppedDebuggerView(<<FrameWork, FrameMain>>, <<BreakpointStop(<<3, 1>>)>>),
      StoppedDebuggerView(<<FrameLibc>>, <<BreakpointStop(<<2>>)>>),
      StoppedDebuggerView(<<FrameMain, FrameLibc>>, <<BreakpointStop(<<1, 2>>)>>),
      StoppedDebuggerView(<<FrameWork, FrameMain>>, <<ExceptionStop, BreakpointStop(<<1>>)>>) }

ExceptionViews ==
    { StoppedDebuggerView(<<FrameWork, FrameMain>>, <<OutputEvent, ExceptionStop>>),
      StoppedDebuggerView(<<FrameLibc>>, <<ExceptionStopBare>>) }

StopViews == ShapeViews \cup {NullIdsView} \cup HitViews \cup ExceptionViews

EndViews ==
    { EventListView(<<OutputEvent, ExitedEvent(1), ExitedEvent(0)>>),
      EventListView(<<OutputEvent>>),
      ErrorView }

\* answers to set_breakpoint: an ErrorResponse, another response type, or a
\* SetBreakpointsResponse with its breakpoints' ids
SetBreakpointsResponse(success, ids) ==
    [kind |-> "SetBreakpointsResponse", success |-> success, breakpoints |-> ids]
\* set_breakpoint raised instead of answering
SetBreakpointRaised == [kind |-> "raise", success |-> FALSE, breakpoints |-> <<>>]
SetBreakpointAnswers ==
    { [kind |-> "ErrorResponse", success |-> FALSE, breakpoints |-> <<>>],
      [kind |-> "Response", success |-> TRUE, breakpoints |-> <<>>],
      SetBreakpointsResponse(FALSE, <<Some(1)>>),
      SetBreakpointsResponse(TRUE, <<>>),
      SetBreakpointsResponse(TRUE, <<Some(2), None>>),
      SetBreakpointsResponse(TRUE, <<Some(1)>>),
      SetBreakpointsResponse(TRUE, <<Some(1), Some(2)>>) }

-----------------------------------------------------------------------------
(* Backtrace formatter *)

_format_single_frame(frame) ==
    IF ~IsNone(frame.source)
    THEN frame.name \o " at " \o Val(frame.source).name \o ":" \o ToString(frame.line)
    ELSE frame.name

RECURSIVE JoinLines(_)
JoinLines(lines) ==
    IF lines = <<>> THEN ""
    ELSE IF Len(lines) = 1 THEN lines[1]
    ELSE lines[1] \o "\n" \o JoinLines(Tail(lines))

_compact_backtrace(frames) ==
    JoinLines([i \in 1..Len(frames) |->
        (IF i = 1 THEN "*" ELSE " ") \o " #" \o ToString(i - 1) \o ": "
            \o _format_single_frame(frames[i])])

-----------------------------------------------------------------------------
(* Expression evaluator wrapper *)

\* an error text is a sequence of phrases
Contains(text, phrase) == \E i \in 1..Len(text) : text[i] = phrase

LowerPhrase(t) ==
    CASE t = "Use Of Undeclared Identifier" -> "use of undeclared identifier"
      [] t = "No Member Named" -> "no member named"
      [] t = "Cannot Be Used" -> "cannot be used"
      [] t = "Not Found" -> "not found"
      [] t = "Undefined" -> "undefined"
      [] OTHER -> t
Lower(text) == [i \in 1..Len(text) |-> LowerPhrase(text[i])]

\* faulty variant: every trigger is looked for in the lower-cased text
ErrorTagAnyCase(text, var) ==
    IF Contains(Lower(text), "use of undeclared identifier")
    THEN "<use of undeclared identifier '" \o var \o "'>"
    ELSE IF Contains(Lower(text), "no member named") THEN "<no member named in " \o var \o ">"
    ELSE IF Contains(Lower(text), "cannot be used") THEN "<" \o var \o " cannot be used>"
    ELSE IF Contains(Lower(text), "not found") THEN "<" \o var \o " not found>"
    ELSE IF Contains(Lower(text), "undefined") THEN "<" \o var \o " undefined>"
    ELSE "<evaluation error for " \o var \o ">"

ErrorTag(text, var) ==
    IF Contains(text, "use of undeclared identifier")
    THEN "<use of undeclared identifier '" \o var \o "'>"
    ELSE IF Contains(text, "no member named") THEN "<no member named in " \o var \o ">"
    ELSE IF Contains(text, "cannot be used") THEN "<" \o var \o " cannot be used>"
    ELSE IF Contains(Lower(text), "not found") THEN "<" \o var \o " not found>"
    ELSE IF Contains(Lower(text), "undefined") THEN "<" \o var \o " undefined>"
    ELSE "<evaluation error for " \o var \o ">"

ErrorResponse(message) ==
    [kind |-> "ErrorResponse", message |-> message, success |-> FALSE, body |-> None]
EvaluateResponse(success, body) ==
    [kind |-> "EvaluateResponse", message |-> None, success |-> success, body |-> body]
EvaluateRaises == [kind |-> "raise", message |-> None, success |-> FALSE, body |-> None]
\* no answer is held: nothing was asked yet, or the answer was a view
NoResponse == [kind |-> "none", message |-> None, success |-> FALSE, body |-> None]
Body(result, error) == [result |-> result, error |-> error]
ErrorObj(format, message) == [format |-> format, message |-> message]

\* the value recorded for expression var when evaluate answered ev
EvalValue(ev, var) ==
    IF ev.kind = "raise" THEN "<runtime_value_unavailable>"
    ELSE IF ev.kind = "ErrorResponse"
    THEN ErrorTag(IF IsNone(ev.message) THEN <<>> ELSE Val(ev.message), var)
    ELSE IF ev.success
    THEN IF IsNone(ev.body) THEN "<evaluation_failed>"
         ELSE IF IsNone(Val(ev.body).result) THEN "<no_result>"
         ELSE Val(Val(ev.body).result)
    ELSE IF IsNone(ev.body) \/ IsNone(Val(ev.body).error) THEN "<evaluation_failed>"
    ELSE LET e == Val(Val(ev.body).error)
         IN  IF ~IsNone(e.format) THEN ErrorTag(Val(e.format), var)
             ELSE IF ~IsNone(e.message) THEN "<" \o Val(e.message) \o ">"
             ELSE "<error_no_details>"

\* what evaluate is answered with in the debuggee the runs are made on: "i"
\* is a variable in scope (its value, unless the call fails), "sum" names
\* nothing (an error response, or a response without body), and a member
\* access is refused in every form the wrapper tells apart
EvaluateAnswers(var) ==
    IF var = "i"
    THEN { EvaluateResponse(TRUE, Some(Body(Some("0"), None))),
           EvaluateRaises }
    ELSE IF var = "sum"
    THEN { ErrorResponse(Some(<<"error:", "use of undeclared identifier">>)),
           EvaluateResponse(FALSE, None) }
    ELSE { ErrorResponse(Some(<<"error:", "no member named", "undefined">>)),
           ErrorResponse(Some(<<"Error:", "Cannot Be Used", "Not Found">>)),
           ErrorResponse(Some(<<"error:", "timed out">>)),
           ErrorResponse(None),
           EvaluateResponse(FALSE, Some(Body(None, Some(ErrorObj(Some(<<"Undefined">>), None))))),
           EvaluateResponse(FALSE, Some(Body(None, Some(ErrorObj(None, Some("expression failed")))))),
           EvaluateResponse(FALSE, Some(Body(None, Some(ErrorObj(None, None))))) }

-----------------------------------------------------------------------------
(* Breakpoint registry: result.reports is a dict in insertion order *)

BreakpointReport(id, fp, line) ==
    [id |-> id, file_path |-> fp, line |-> line, function_name |-> "",
     hit_times |-> 0, hits_info |-> <<>>]

Keys(reps) == {reps[k].id : k \in 1..Len(reps)}
IndexOfKey(reps, id) == CHOOSE k \in 1..Len(reps) : reps[k].id = id
DictGet(reps, id) == IF id \in Keys(reps) THEN Some(reps[IndexOfKey(reps, id)]) ELSE None
\* faulty variant: an assignment to a key the dict holds moves it to the end
DictSetLast(reps, id, r) ==
    Append(SelectSeq(reps, LAMBDA x : x.id # id), r)

\* faulty variant: a report that is held is written at the first place
DictSetFirst(reps, id, r) ==
    IF id \in Keys(reps) THEN [reps EXCEPT ![1] = r] ELSE Append(reps, r)

\* an assignment to a key the dict holds keeps the key's place
DictSet(reps, id, r) ==
    IF id \in Keys(reps) THEN [reps EXCEPT ![IndexOfKey(reps, id)] = r] ELSE Append(reps, r)

\* faulty variant: "success" is not looked at
AcknowledgedIdAnySuccess(resp) ==
    IF resp.kind # "SetBreakpointsResponse" THEN None
    ELSE IF resp.breakpoints = <<>> THEN None
    ELSE resp.breakpoints[Len(resp.breakpoints)]

\* the id the registration of a spec is acknowledged with (None: not acknowledged)
AcknowledgedId(resp) ==
    IF resp.kind # "SetBreakpointsResponse" THEN None
    ELSE IF ~resp.success THEN None
    ELSE IF resp.breakpoints = <<>> THEN None
    ELSE resp.breakpoints[Len(resp.breakpoints)]

-----------------------------------------------------------------------------
(* Recording a hit *)

NoHit == [callstack |-> "", inline_expr |-> <<>>]
InlineExprValue(name, value) == [name |-> name, value |-> value]

IncrementHit(report, function_name) ==
    [report EXCEPT !.function_name = function_name, !.hit_times = @ + 1]

\* faulty variant: the removal waits until the limit is exceeded
LimitExceeded(report, spec) == report.hit_times > spec.hit_limit

LimitReached(report, spec) == report.hit_times >= spec.hit_limit

\* faulty variant: the line is taken only together with the path
UpdateFromTopWithPath(report, top) ==
    IF ~IsNone(top.source) /\ ~IsNone(Val(top.source).path)
       /\ Val(Val(top.source).path) # <<>>
    THEN [report EXCEPT !.file_path = Val(Val(top.source).path), !.line = top.line]
    ELSE report

\* "if top.source and top.source.path": None and the empty path are falsy
UpdateFromTop(report, top) ==
    [report EXCEPT
        !.file_path = IF ~IsNone(top.source) /\ ~IsNone(Val(top.source).path)
                         /\ Val(Val(top.source).path) # <<>>
                      THEN Val(Val(top.source).path) ELSE @,
        !.line = top.line]

\* faulty variant: the backtrace is stored whatever the spec asks for
NewHitInfoWithStack(spec, bt) == [callstack |-> bt, inline_expr |-> <<>>]

NewHitInfo(spec, bt) ==
    [callstack |-> IF spec.print_call_stack THEN bt ELSE "", inline_expr |-> <<>>]

\* faulty variant: an expression whose evaluate raised leaves no entry
RecordValueIfAvailable(hit, var, val) ==
    IF val = "<runtime_value_unavailable>" THEN hit
    ELSE [hit EXCEPT !.inline_expr = Append(@, InlineExprValue(var, val))]

RecordValue(hit, var, val) ==
    [hit EXCEPT !.inline_expr = Append(@, InlineExprValue(var, val))]

\* faulty variant: a hit that carries no values is counted but not kept
AppendHitWithValues(report, hit) ==
    IF hit.inline_expr = <<>> THEN report
    ELSE [report EXCEPT !.hits_info = Append(@, hit)]

\* faulty variant: the newest hit is put first
AppendHitFirst(report, hit) == [report EXCEPT !.hits_info = <<hit>> \o @]

AppendHit(report, hit) == [report EXCEPT !.hits_info = Append(@, hit)]

\* the first spec of the list with the file and line of the spec bound to id
SpecOfFirstSharing(id) ==
    breakpoints[CHOOSE j \in 1..Len(breakpoints) :
                    /\ file_path(breakpoints[j]) = file_path(breakpoints[id_to_spec[id]])
                    /\ line_no(breakpoints[j]) = line_no(breakpoints[id_to_spec[id]])
                    /\ \A l \in 1..(j - 1) :
                          \/ file_path(breakpoints[l]) # file_path(breakpoints[id_to_spec[id]])
                          \/ line_no(breakpoints[l]) # line_no(breakpoints[id_to_spec[id]])]

SpecOf(id) == breakpoints[id_to_spec[id]]

\* the loop's local state at the next suspension point
Local(next, reps, i, v, hit) ==
    [pc |-> next, reports |-> reps, bi |-> i, vi |-> v, hit_info |-> hit]

\* faulty variant: only the first id of hitBreakpointIds is read
HitIdsFirst(view) ==
    <<Val(view.events[CHOOSE k \in 1..Len(view.events) :
            view.events[k].type = "StoppedEvent"
            /\ view.events[k].reason = "breakpoint"].hitBreakpointIds)[1]>>

HitIds(view) == Val(view.events[CHOOSE k \in 1..Len(view.events) :
                        view.events[k].type = "StoppedEvent"
                        /\ view.events[k].reason = "breakpoint"].hitBreakpointIds)

RECURSIVE RunIds(_, _, _)
RECURSIVE AfterRemove(_, _, _)

\* "for breakpoint_id in breakpoint_ids", from its i-th id to the next await
RunIds(reps, view, i) ==
    LET ids == HitIds(view)
    IN  IF i > Len(ids) THEN Local("continue", reps, 0, 0, NoHit)
        ELSE IF ids[i] \notin DOMAIN id_to_spec \/ IsNone(DictGet(reps, ids[i]))
        THEN RunIds(reps, view, i + 1)
        ELSE LET report == IncrementHit(Val(DictGet(reps, ids[i])), view.frames[1].name)
                 reps1  == DictSet(reps, ids[i], report)
             IN  IF LimitReached(report, SpecOf(ids[i]))
                 THEN Local("remove", reps1, i, 0, NoHit)
                 ELSE AfterRemove(reps1, view, i)

\* from the end of the removal of the i-th id to the next await
AfterRemove(reps, view, i) ==
    LET id     == HitIds(view)[i]
        spec   == SpecOf(id)
        report == UpdateFromTop(Val(DictGet(reps, id)), view.frames[1])
        reps1  == DictSet(reps, id, report)
        hit    == NewHitInfo(spec, _compact_backtrace(view.frames))
    IN  IF spec.inline_expr = <<>>
        THEN RunIds(DictSet(reps1, id, AppendHit(report, hit)), view, i + 1)
        ELSE Local("evaluate", reps1, i, 1, hit)

\* faulty variant: an evaluate that raises abandons the hit
AfterEvaluateAbandons(reps, view, i, v, hit, ev) ==
    LET id   == HitIds(view)[i]
        spec == SpecOf(id)
        hit1 == RecordValue(hit, spec.inline_expr[v], EvalValue(ev, spec.inline_expr[v]))
    IN  IF ev.kind = "raise" THEN RunIds(reps, view, i + 1)
        ELSE IF v < Len(spec.inline_expr)
        THEN Local("evaluate", reps, i, v + 1, hit1)
        ELSE RunIds(DictSet(reps, id, AppendHit(Val(DictGet(reps, id)), hit1)), view, i + 1)

\* faulty variant: the removal is asked for when the hit's expressions are
\* evaluated
AfterEvaluateThenRemove(reps, view, i, v, hit, ev) ==
    LET id   == HitIds(view)[i]
        spec == SpecOf(id)
        hit1 == RecordValue(hit, spec.inline_expr[v], EvalValue(ev, spec.inline_expr[v]))
    IN  IF v < Len(spec.inline_expr)
        THEN Local("evaluate", reps, i, v + 1, hit1)
        ELSE IF LimitReached(Val(DictGet(reps, id)), spec)
        THEN Local("remove", DictSet(reps, id, AppendHit(Val(DictGet(reps, id)), hit1)), i, 0, NoHit)
        ELSE RunIds(DictSet(reps, id, AppendHit(Val(DictGet(reps, id)), hit1)), view, i + 1)

\* from the answer to the v-th evaluate of the i-th id to the next await
AfterEvaluate(reps, view, i, v, hit, ev) ==
    LET id   == HitIds(view)[i]
        spec == SpecOf(id)
        hit1 == RecordValue(hit, spec.inline_expr[v], EvalValue(ev, spec.inline_expr[v]))
    IN  IF v < Len(spec.inline_expr)
        THEN Local("evaluate", reps, i, v + 1, hit1)
        ELSE RunIds(DictSet(reps, id, AppendHit(Val(DictGet(reps, id)), hit1)), view, i + 1)

-----------------------------------------------------------------------------
(* The stop loop's classification of a view *)

IsStopped(e) == e.type = "StoppedEvent"
IsBreakpointStop(e) == e.type = "StoppedEvent" /\ e.reason = "breakpoint"

\* faulty variant: the first StoppedEvent alone decides
ClassifyByFirstStop(view) ==
    LET stopped_event == SelectSeq(view.events, IsStopped)
    IN  IF view.kind # "StoppedDebuggerView" THEN "break"
        ELSE IF view.frames = <<>> THEN "continue"
        ELSE IF stopped_event = <<>> THEN "continue"
        ELSE IF stopped_event[1].reason = "exception" THEN "signal"
        ELSE IF stopped_event[1].reason # "breakpoint" THEN "continue"
        ELSE IF ~stopped_event[1].hasHitBreakpointIds THEN "continue"
        ELSE IF IsNone(stopped_event[1].hitBreakpointIds) THEN "spin"
        ELSE "hits"

Classify(view) ==
    LET breakpoint_event == SelectSeq(view.events, IsBreakpointStop)
        stopped_event    == SelectSeq(view.events, IsStopped)
    IN  IF view.kind # "StoppedDebuggerView" THEN "break"
        ELSE IF view.frames = <<>> THEN "continue"
        ELSE IF breakpoint_event = <<>>
        THEN IF Len(stopped_event) # 1 THEN "continue"
             ELSE IF stopped_event[1].reason # "exception" THEN "continue"
             ELSE "signal"
        ELSE IF Len(breakpoint_event) # 1 THEN "continue"
        ELSE IF ~breakpoint_event[1].hasHitBreakpointIds THEN "continue"
        ELSE IF IsNone(breakpoint_event[1].hitBreakpointIds) THEN "spin"
        ELSE "hits"

\* faulty variant: the stop reason is taken for the signal
SignalOfReason(view) == Some(SelectSeq(view.events, IsStopped)[1].reason)

SignalOf(view) == SelectSeq(view.events, IsStopped)[1].description

\* faulty variant: a run without an ExitedEvent is given exit code 0
ExitCodeOrZero(view) ==
    LET exited_events == SelectSeq(view.events, LAMBDA e : e.type = "ExitedEvent")
    IN  IF view.kind = "EventListView" /\ exited_events # <<>>
        THEN Some(exited_events[1].exitCode)
        ELSE Some(0)

\* faulty variant: the last ExitedEvent is read instead of the first
ExitCodeOfLast(view) ==
    LET exited_events == SelectSeq(view.events, LAMBDA e : e.type = "ExitedEvent")
    IN  IF view.kind = "EventListView" /\ exited_events # <<>>
        THEN Some(exited_events[Len(exited_events)].exitCode)
        ELSE None

\* the exit code scanned from the view the loop ended with
ExitCodeOf(view) ==
    LET exited_events == SelectSeq(view.events, LAMBDA e : e.type = "ExitedEvent")
    IN  IF view.kind = "EventListView" /\ exited_events # <<>>
        THEN Some(exited_events[1].exitCode)
        ELSE None

\* faulty variant: the loop is not left on a timeout
AfterTimeoutRetry == "continue"

\* launch again after a timeout
AfterTimeoutRelaunch == "launch"

\* where the loop goes when the gate raised TimeoutError: "break"
AfterTimeout == "terminate"

-----------------------------------------------------------------------------
(* The timeout gate (_with_timeout) *)

\* faulty variant: the budget is never armed
BudgetIgnored == FALSE

\* faulty variant: the gate reads the clock also when timeout_sec is None
BudgetAssumed == TRUE

HasBudget == ~IsNone(timeout_sec)

\* faulty variant: every gated call gets the whole budget
RemainingPerCall == IF IsNone(timeout_sec) THEN 0 ELSE Val(timeout_sec)

Remaining == IF IsNone(timeout_sec) THEN 0 ELSE Val(timeout_sec) - clock
\* "if remaining <= 0: raise asyncio.TimeoutError()" before anything is sent
GateShut == HasBudget /\ Remaining <= 0
\* wait_for(awaitable, remaining) returns an answer that takes d
InTime(d) == IF HasBudget THEN d < Remaining ELSE TRUE

-----------------------------------------------------------------------------
(* The temp files of the debuggee's stdio *)

\* NamedTemporaryFile(delete=False) for stdout and stderr, and for stdin when
\* input was supplied
TempFiles(input) ==
    [stdin  |-> IF IsNone(input) THEN "none" ELSE "created",
     stdout |-> "created",
     stderr |-> "created"]

\* faulty variant: the input file is left behind
FinallyStdio(f) == [f EXCEPT !.stdout = "unlinked", !.stderr = "unlinked"]

\* the "finally" block: os.unlink of stdin if there is one, of stdout and stderr
Finally(f) ==
    [f EXCEPT !.stdin  = IF @ = "none" THEN "none" ELSE "unlinked",
              !.stdout = "unlinked",
              !.stderr = "unlinked"]

-----------------------------------------------------------------------------
(* Initial state: the temp files are made, the adapter is looked up next *)

\* the state _run_dap starts in, whoever called it
Entered ==
    /\ pc = "initialize"
    /\ stdin_bytes \in StdinChoices(breakpoints)
    /\ files = TempFiles(stdin_bytes)
    /\ stdio_read = FALSE
    /\ si = 1
    /\ id_to_spec = <<>>
    /\ reports = <<>>
    /\ timeout = FALSE
    /\ exit_code = None
    /\ signal = None
    /\ stopped = NoView
    /\ hit_times_before = <<>>
    /\ bi = 0
    /\ vi = 0
    /\ hit_info = NoHit
    /\ clock = 0
    /\ req = "none"
    /\ answered = TRUE
    /\ response = NoResponse
    /\ raised = "none"

\* _run_dap is called with its own arguments, as the tests call it
Init ==
    /\ breakpoints \in SpecLists
    /\ timeout_sec \in TimeoutChoices
    /\ entry = [point |-> "_run_dap", timeout_sec |-> timeout_sec]
    /\ Entered

\* "timeout_sec=float(timeout_sec) if timeout_sec else None": None and 0 are
\* falsy, and an int and its float are the same number
RunBudget(given) ==
    IF IsNone(given) THEN None
    ELSE IF Val(given) = 0 THEN None
    ELSE given

\* the timeout_sec arguments and the breakpoint lists RuntimeDebugger.run is
\* called with
RunTimeoutChoices == {None, Some(0), Some(1), Some(-1)}
RunSpecLists ==
    { <<>>, <<SpecLoop>>, <<SpecBody>>, <<SpecBadLine>>, <<SpecNoColon>>, <<SpecZeroLine>>,
      <<SpecExit>>, <<SpecInRepo>>, <<SpecAbsMissing>>, <<SpecNowhere>>, <<SpecMember>> }

\* RuntimeDebugger.run builds the specs and calls _run_dap
InitRun ==
    /\ breakpoints \in RunSpecLists
    /\ entry \in {[point |-> "run", timeout_sec |-> t] : t \in RunTimeoutChoices}
    /\ timeout_sec = RunBudget(entry.timeout_sec)
    /\ Entered

result == <<reports, timeout, exit_code, signal>>
loop == <<stopped, hit_times_before, bi, vi, hit_info>>
registry == <<breakpoints, si, id_to_spec>>

\* the locals of a coroutine that will never return a result: no caller sees them
Dropped ==
    /\ si' = 0
    /\ id_to_spec' = <<>>
    /\ reports' = <<>>
    /\ timeout' = FALSE
    /\ exit_code' = None
    /\ signal' = None
    /\ stopped' = NoView
    /\ hit_times_before' = <<>>
    /\ bi' = 0
    /\ vi' = 0
    /\ hit_info' = NoHit
    /\ clock' = 0
    /\ response' = NoResponse

\* an exception leaves _run_dap: the frame is unwound and no result is returned
Raise(exc) ==
    /\ raised' = exc
    /\ pc' = "raised"
    /\ files' = Finally(files)
    /\ UNCHANGED stdio_read
    /\ Dropped

\* faulty variant: a request that gets no answer is given up for the teardown
BlockAbandoned(request) ==
    /\ pc' = "terminate"
    /\ req' = request
    /\ answered' = FALSE
    /\ UNCHANGED <<files, stdio_read>>
    /\ Dropped

\* the coroutine waits for an answer that never comes
Block(request) ==
    /\ pc' = "blocked"
    /\ req' = request
    /\ answered' = FALSE
    /\ UNCHANGED <<files, stdio_read>>
    /\ Dropped

Sent(request) ==
    /\ req' = request
    /\ answered' = TRUE

-----------------------------------------------------------------------------
(* Adapter lookup, initialize, source map, normalization *)

\* _find_lldb_adapter finds no adapter: nothing was sent
AdapterNotFound ==
    /\ pc = "initialize"
    /\ Raise("RuntimeError")
    /\ UNCHANGED <<breakpoints, timeout_sec, entry, stdin_bytes, req, answered>>

\* writing the input to its temp file fails: nothing was sent
StdinWriteRaises ==
    /\ pc = "initialize"
    /\ ~IsNone(stdin_bytes)
    /\ Raise("OSError")
    /\ UNCHANGED <<breakpoints, timeout_sec, entry, stdin_bytes, req, answered>>

InitializeRaises ==
    /\ pc = "initialize"
    /\ Sent("initialize")
    /\ Raise("AdapterError")
    /\ UNCHANGED <<breakpoints, timeout_sec, entry, stdin_bytes>>

InitializeHangs ==
    /\ pc = "initialize"
    /\ Block("initialize")
    /\ UNCHANGED <<breakpoints, timeout_sec, entry, stdin_bytes, raised>>

\* subprocess.check_output fails in _get_source_map
SourceMapRaises ==
    /\ pc = "initialize"
    /\ Sent("initialize")
    /\ Raise("CalledProcessError")
    /\ UNCHANGED <<breakpoints, timeout_sec, entry, stdin_bytes>>

NormalizeFails ==
    /\ pc = "initialize"
    /\ NormalizeRaises(breakpoints)
    /\ \E repo_dir \in RepoDirs, source_map \in SourceMaps :
          breakpoints' = _normalize_locations(breakpoints, repo_dir, Some(source_map))
    /\ Sent("initialize")
    /\ Raise("ValueError")
    /\ UNCHANGED <<timeout_sec, entry, stdin_bytes>>

\* the state the registration loop is in before its i-th spec
NextSpec(i) == IF i > Len(breakpoints) THEN "launch" ELSE "set_breakpoint"

InitializeOk ==
    /\ pc = "initialize"
    /\ ~NormalizeRaises(breakpoints)
    /\ \E repo_dir \in RepoDirs, source_map \in SourceMaps :
          breakpoints' = _normalize_locations(breakpoints, repo_dir, Some(source_map))
    /\ Sent("initialize")
    /\ pc' = NextSpec(1)
    /\ UNCHANGED <<si, id_to_spec, result, loop, timeout_sec, entry, stdin_bytes, clock, response, raised, files, stdio_read>>

-----------------------------------------------------------------------------
(* Registration of the si-th spec *)

\* int(ln) raises inside the try: no request is sent
SetBreakpointBadLine ==
    /\ pc = "set_breakpoint"
    /\ IsNone(line_no(breakpoints[si]))
    /\ si' = si + 1
    /\ pc' = NextSpec(si + 1)
    /\ req' = "none"
    /\ answered' = TRUE
    /\ response' = NoResponse
    /\ UNCHANGED <<breakpoints, id_to_spec, result, loop, timeout_sec, entry, stdin_bytes, clock, raised, files, stdio_read>>

\* faulty variant: an id acknowledged again keeps the report it has
RegisterKeepFirst(reps, id, spec) ==
    IF id \in Keys(reps) THEN reps
    ELSE DictSet(reps, id, BreakpointReport(id, Val(file_path(spec)), Val(line_no(spec))))

\* faulty variant: the report is numbered by its place, not by the id
RegisterNumbered(reps, id, spec) ==
    DictSet(reps, id, BreakpointReport(Len(reps) + 1, Val(file_path(spec)), Val(line_no(spec))))

Register(reps, id, spec) ==
    DictSet(reps, id, BreakpointReport(id, Val(file_path(spec)), Val(line_no(spec))))

SetBreakpointAnswered ==
    /\ pc = "set_breakpoint"
    /\ ~IsNone(line_no(breakpoints[si]))
    /\ \E resp \in SetBreakpointAnswers :
          /\ response' = resp
          /\ LET id == AcknowledgedId(resp)
             IN  IF IsNone(id)
                 THEN UNCHANGED <<id_to_spec, reports>>
                 ELSE /\ id_to_spec' = (Val(id) :> si) @@ id_to_spec
                      /\ reports' = Register(reports, Val(id), breakpoints[si])
    /\ si' = si + 1
    /\ pc' = NextSpec(si + 1)
    /\ Sent("set_breakpoint")
    /\ UNCHANGED <<breakpoints, timeout, exit_code, signal, loop, timeout_sec, entry, stdin_bytes, clock, raised, files, stdio_read>>

\* "except Exception": warning, next spec
SetBreakpointRaises ==
    /\ pc = "set_breakpoint"
    /\ ~IsNone(line_no(breakpoints[si]))
    /\ si' = si + 1
    /\ pc' = NextSpec(si + 1)
    /\ Sent("set_breakpoint")
    /\ response' = SetBreakpointRaised
    /\ UNCHANGED <<breakpoints, id_to_spec, result, loop, timeout_sec, entry, stdin_bytes, clock, raised, files, stdio_read>>

SetBreakpointHangs ==
    /\ pc = "set_breakpoint"
    /\ ~IsNone(line_no(breakpoints[si]))
    /\ Block("set_breakpoint")
    /\ UNCHANGED <<breakpoints, timeout_sec, entry, stdin_bytes, raised>>

-----------------------------------------------------------------------------
(* Launch, continue and the stop loop *)

Apply(l) ==
    /\ pc' = l.pc
    /\ reports' = l.reports
    /\ bi' = l.bi
    /\ vi' = l.vi
    /\ hit_info' = l.hit_info

\* the loop is left with view in "stopped": scan for the exit code, go to teardown
\* faulty variant: the result is returned without teardown
BreakAndReturn(view) ==
    /\ pc' = "done"
    /\ exit_code' = ExitCodeOf(view)

Break(view) ==
    /\ pc' = "terminate"
    /\ exit_code' = ExitCodeOf(view)

\* launch or continue_execution returned view: the loop body up to its next await
Receive(view) ==
    /\ stopped' = view
    /\ hit_times_before' = [k \in 1..Len(reports) |-> reports[k].hit_times]
    /\ LET c == Classify(view)
       IN  CASE c = "break" ->
                  /\ Break(view)
                  /\ UNCHANGED <<reports, signal, bi, vi, hit_info>>
             [] c = "signal" ->
                  /\ signal' = SignalOf(view)
                  /\ Break(view)
                  /\ UNCHANGED <<reports, bi, vi, hit_info>>
             [] c = "continue" ->
                  /\ pc' = "continue"
                  /\ UNCHANGED <<reports, exit_code, signal, bi, vi, hit_info>>
             [] c = "spin" ->
                  /\ pc' = "spin"
                  /\ UNCHANGED <<reports, exit_code, signal, bi, vi, hit_info>>
             [] c = "hits" ->
                  /\ Apply(RunIds(reports, view, 1))
                  /\ UNCHANGED <<exit_code, signal>>

RECURSIVE TotalHits(_)
TotalHits(reps) == IF reps = <<>> THEN 0 ELSE Head(reps).hit_times + TotalHits(Tail(reps))

\* the hits a view adds to the reports
NewHits(view) ==
    IF Classify(view) # "hits" THEN 0
    ELSE Cardinality({k \in 1..Len(HitIds(view)) :
            HitIds(view)[k] \in DOMAIN id_to_spec /\ HitIds(view)[k] \in Keys(reports)})

\* what the adapter may answer launch or continue_execution with
Views == {v \in StopViews : TotalHits(reports) + NewHits(v) <= MaxHits} \cup EndViews

GatedAnswered(request) ==
    /\ ~GateShut
    /\ \E d \in Delays, view \in Views :
          /\ InTime(d)
          /\ clock' = Tick(clock, d)
          /\ Receive(view)
    /\ Sent(request)
    /\ response' = NoResponse
    /\ UNCHANGED <<registry, timeout, timeout_sec, entry, stdin_bytes, raised, files, stdio_read>>

\* the adapter raises something other than TimeoutError: nothing catches it
GatedRaises(request) ==
    /\ ~GateShut
    /\ Sent(request)
    /\ Raise("AdapterError")
    /\ UNCHANGED <<breakpoints, timeout_sec, entry, stdin_bytes>>

\* no budget, and the adapter never answers
GatedHangs(request) ==
    /\ ~HasBudget
    /\ Block(request)
    /\ UNCHANGED <<breakpoints, timeout_sec, entry, stdin_bytes, raised>>

\* faulty variant: the timeout returns the reports as they were registered
TimedOutFresh(view) ==
    /\ timeout' = TRUE
    /\ stopped' = view
    /\ pc' = AfterTimeout
    /\ exit_code' = ExitCodeOf(view)
    /\ reports' = [k \in 1..Len(reports) |->
                      [reports[k] EXCEPT !.hit_times = 0, !.hits_info = <<>>]]
    /\ response' = NoResponse
    /\ UNCHANGED <<registry, signal, hit_times_before, bi, vi, hit_info, timeout_sec, entry, stdin_bytes, raised, files, stdio_read>>

\* "except asyncio.TimeoutError" with the view the loop is left with: the loop
\* is left and the exit code scanned
TimedOut(view) ==
    /\ timeout' = TRUE
    /\ stopped' = view
    /\ pc' = AfterTimeout
    /\ exit_code' = ExitCodeOf(view)
    /\ response' = NoResponse
    /\ UNCHANGED <<registry, reports, signal, hit_times_before, bi, vi, hit_info, timeout_sec, entry, stdin_bytes, raised, files, stdio_read>>

\* the budget is spent before the request: nothing is sent
GateRefuses(view) ==
    /\ GateShut
    /\ req' = "none"
    /\ answered' = TRUE
    /\ clock' = clock
    /\ TimedOut(view)

\* the request is sent and the timer of wait_for wins
GateExpires(request, view) ==
    /\ HasBudget
    /\ ~GateShut
    /\ req' = request
    /\ answered' = FALSE
    /\ clock' = Min(Val(timeout_sec), ClockCap)
    /\ TimedOut(view)

LaunchAnswered ==
    /\ pc = "launch"
    /\ GatedAnswered("launch")

LaunchRaises ==
    /\ pc = "launch"
    /\ GatedRaises("launch")

LaunchHangs ==
    /\ pc = "launch"
    /\ GatedHangs("launch")

\* "stopped = None"
LaunchRefused ==
    /\ pc = "launch"
    /\ GateRefuses(NoView)

LaunchTimesOut ==
    /\ pc = "launch"
    /\ GateExpires("launch", NoView)

ContinueAnswered ==
    /\ pc = "continue"
    /\ GatedAnswered("continue")

ContinueRaises ==
    /\ pc = "continue"
    /\ GatedRaises("continue")

ContinueHangs ==
    /\ pc = "continue"
    /\ GatedHangs("continue")

ContinueRefused ==
    /\ pc = "continue"
    /\ GateRefuses(stopped)

ContinueTimesOut ==
    /\ pc = "continue"
    /\ GateExpires("continue", stopped)

-----------------------------------------------------------------------------
(* Requests inside a recorded hit: neither goes through the gate *)

RemoveOutcomes == {"success", "unsuccessful", "ErrorResponse", "raise"}

RemoveAnswered ==
    /\ pc = "remove"
    /\ \E outcome \in RemoveOutcomes, d \in Delays :
          /\ clock' = Tick(clock, d)
          /\ Apply(AfterRemove(reports, stopped, bi))
          /\ response' = [NoResponse EXCEPT !.kind = outcome]
    /\ Sent("remove")
    /\ UNCHANGED <<registry, timeout, exit_code, signal, stopped, hit_times_before, timeout_sec, entry, stdin_bytes, raised, files, stdio_read>>

RemoveHangs ==
    /\ pc = "remove"
    /\ Block("remove")
    /\ UNCHANGED <<breakpoints, timeout_sec, entry, stdin_bytes, raised>>

EvaluateAnswered ==
    /\ pc = "evaluate"
    /\ \E ev \in EvaluateAnswers(SpecOf(HitIds(stopped)[bi]).inline_expr[vi]), d \in Delays :
          /\ clock' = Tick(clock, d)
          /\ Apply(AfterEvaluate(reports, stopped, bi, vi, hit_info, ev))
          /\ response' = ev
    /\ Sent("evaluate")
    /\ UNCHANGED <<registry, timeout, exit_code, signal, stopped, hit_times_before, timeout_sec, entry, stdin_bytes, raised, files, stdio_read>>

EvaluateHangs ==
    /\ pc = "evaluate"
    /\ Block("evaluate")
    /\ UNCHANGED <<breakpoints, timeout_sec, entry, stdin_bytes, raised>>

-----------------------------------------------------------------------------
(* Teardown *)

\* faulty variant: the files are opened when the "finally" block has run
ReadAfterUnlink(f) == Finally(f).stdout = "created" /\ Finally(f).stderr = "created"

\* "with open(stdout.name) ... with open(stderr.name)": both files are there
\* to be read
ReadStdio(f) == f.stdout = "created" /\ f.stderr = "created"

\* terminate answered, the stdio files are read, the result is returned
TerminateAnswered ==
    /\ pc = "terminate"
    /\ pc' = "done"
    /\ Sent("terminate")
    /\ stdio_read' = ReadStdio(files)
    /\ files' = Finally(files)
    /\ UNCHANGED <<registry, result, loop, timeout_sec, entry, stdin_bytes, clock, response, raised>>

TerminateRaises ==
    /\ pc = "terminate"
    /\ Sent("terminate")
    /\ Raise("AdapterError")
    /\ UNCHANGED <<breakpoints, timeout_sec, entry, stdin_bytes>>

TerminateHangs ==
    /\ pc = "terminate"
    /\ Block("terminate")
    /\ UNCHANGED <<breakpoints, timeout_sec, entry, stdin_bytes, raised>>

-----------------------------------------------------------------------------

Next ==
    \/ StdinWriteRaises
    \/ AdapterNotFound
    \/ InitializeRaises
    \/ InitializeHangs
    \/ SourceMapRaises
    \/ NormalizeFails
    \/ InitializeOk
    \/ SetBreakpointBadLine
    \/ SetBreakpointAnswered
    \/ SetBreakpointRaises
    \/ SetBreakpointHangs
    \/ LaunchAnswered
    \/ LaunchRaises
    \/ LaunchHangs
    \/ LaunchRefused
    \/ LaunchTimesOut
    \/ ContinueAnswered
    \/ ContinueRaises
    \/ ContinueHangs
    \/ ContinueRefused
    \/ ContinueTimesOut
    \/ RemoveAnswered
    \/ RemoveHangs
    \/ EvaluateAnswered
    \/ EvaluateHangs
    \/ TerminateAnswered
    \/ TerminateRaises
    \/ TerminateHangs

Spec == Init /\ [][Next]_vars

\* the runs entered through RuntimeDebugger.run
SpecRun == InitRun /\ [][Next]_vars

-----------------------------------------------------------------------------
(* Properties of the returned result *)

\* a result is returned: _run_dap reached its return statement
Returned == pc = "done"

\* C1: in every returned result, whether the loop ended by termination, an
\* exception stop or a timeout, each report's hit_times equals the number of
\* its hits_info entries.
C1_HitTimesIsLenHitsInfo ==
    Returned =>
        \A k \in 1..Len(reports) : reports[k].hit_times = Len(reports[k].hits_info)

\* a result returned after a timeout with a report that recorded two hits
C1_Witness ==
    /\ Returned
    /\ timeout
    /\ \E k \in 1..Len(reports) :
          reports[k].hit_times = 2 /\ Len(reports[k].hits_info) = 2

\* C2: in every returned report, hit_times is at most the hit_limit of the
\* spec registered under the report's id, whatever the adapter does with the
\* remove-breakpoint request.
C2_HitTimesWithinHitLimit ==
    Returned =>
        \A k \in 1..Len(reports) :
            reports[k].hit_times <= breakpoints[id_to_spec[reports[k].id]].hit_limit

\* C3: for every recorded hit of a spec, whatever each evaluate returned or
\* raised, the names of the hit's inline_expr entries are the spec's
\* inline_expr: same count, same order.
C3_NamesAreDeclaredExpressions ==
    \A k \in 1..Len(reports) :
        \A h \in 1..Len(reports[k].hits_info) :
            LET entries == reports[k].hits_info[h].inline_expr
            IN  [e \in 1..Len(entries) |-> entries[e].name]
                    = breakpoints[id_to_spec[reports[k].id]].inline_expr

\* a returned hit of a spec with two expressions, the first of which could
\* not be evaluated because evaluate raised
C3_Witness ==
    /\ Returned
    /\ \E k \in 1..Len(reports) :
          \E h \in 1..Len(reports[k].hits_info) :
              LET entries == reports[k].hits_info[h].inline_expr
              IN  /\ Len(entries) = 2
                  /\ entries[1].value = "<runtime_value_unavailable>"
                  /\ entries[2].value = "<evaluation_failed>"

\* C4: when the gate expires at launch or at a continue_execution (the step
\* gets no answer to a gated request although there is a budget), timeout is
\* set and the loop is left; once timeout is set the only request sent is
\* terminate.
C4_TimeoutLeavesLoop ==
    /\ [][(/\ pc \in {"launch", "continue"}
           /\ ~IsNone(timeout_sec)
           /\ ~(answered' /\ req' = pc))
              => (timeout' /\ pc' = "terminate")]_vars
    /\ [][timeout => (req' = "terminate" /\ pc' \in {"done", "raised", "blocked"})]_vars

\* a result returned after a continue_execution that the gate cut short
C4_Witness ==
    /\ Returned
    /\ timeout
    /\ req = "terminate"
    /\ stopped.kind = "StoppedDebuggerView"

\* C5, as stated: with a budget, no request can leave the run waiting forever.
C5_EveryRoundTripGated == ~IsNone(timeout_sec) => pc # "blocked"

\* C5, as the code has it: with a budget, only launch and continue_execution
\* are cut short when the adapter does not answer, and the run then goes on
\* to terminate with timeout set; an unanswered initialize, set_breakpoint,
\* remove_breakpoint, evaluate or terminate is waited for without end.
C5_OnlyLaunchAndContinueGated ==
    (~IsNone(timeout_sec) /\ ~answered) =>
        IF req \in {"launch", "continue"}
        THEN timeout /\ pc = "terminate"
        ELSE /\ req \in {"initialize", "set_breakpoint", "remove", "evaluate", "terminate"}
             /\ pc = "blocked"

\* a continue_execution the adapter did not answer within the budget
C5_Witness ==
    /\ ~IsNone(timeout_sec)
    /\ ~answered
    /\ req = "continue"
    /\ timeout
    /\ pc = "terminate"

\* C6: the only exception that leaves the run is the RuntimeError of the
\* missing adapter.
C6_OnlyMissingAdapterRaises == raised \in {"none", "RuntimeError"}

IsExceptionStop(view) ==
    /\ view.kind = "StoppedDebuggerView"
    /\ view.frames # <<>>
    /\ Cardinality({k \in 1..Len(view.events) : view.events[k].type = "StoppedEvent"}) = 1
    /\ \A k \in 1..Len(view.events) :
          view.events[k].type = "StoppedEvent" => view.events[k].reason = "exception"

DescriptionOf(view) ==
    view.events[CHOOSE k \in 1..Len(view.events) :
                    view.events[k].type = "StoppedEvent"].description

C9_ExitCodeOfTerminatedView ==
    (/\ Returned
     /\ stopped.kind = "EventListView"
     /\ \E k \in 1..Len(stopped.events) : stopped.events[k].type = "ExitedEvent")
    => LET first == CHOOSE k \in 1..Len(stopped.events) :
                        /\ stopped.events[k].type = "ExitedEvent"
                        /\ \A j \in 1..(k - 1) : stopped.events[j].type # "ExitedEvent"
       IN  /\ exit_code = Some(stopped.events[first].exitCode)
           /\ IsNone(signal)
           /\ ~timeout
           /\ (breakpoints = <<>> => reports = <<>>)

\* a run without specs that returned exit code 1 and no reports
C9_Witness ==
    /\ Returned
    /\ breakpoints = <<>>
    /\ stopped.kind = "EventListView"
    /\ exit_code = Some(1)
    /\ reports = <<>>

\* C10: a timeout discards nothing: from the step in which timeout is set to
\* the return the reports do not change; a launch timeout returns every
\* registered report with hit_times 0 and no hits.
C10_TimeoutKeepsReports ==
    /\ [][timeout' => reports' = reports]_vars
    /\ [](Returned /\ timeout /\ stopped = NoView =>
            /\ Keys(reports) = DOMAIN id_to_spec
            /\ \A k \in 1..Len(reports) :
                  reports[k].hit_times = 0 /\ reports[k].hits_info = <<>>)

\* a result returned after a continue timeout, with a hit recorded before it
C10_Witness ==
    /\ Returned
    /\ timeout
    /\ stopped.kind = "StoppedDebuggerView"
    /\ \E k \in 1..Len(reports) : reports[k].hits_info # <<>>
    /\ \E k \in 1..Len(reports) : reports[k].hit_times = 0

\* C11: every iteration of the stop loop either leaves the loop or awaits a
\* continue_execution: the loop is never in an iteration that re-examines
\* the view it already has without sending anything.
C11_LoopMakesProgress == pc # "spin"

\* a stop view of a shape the loop does not expect: no frames, no breakpoint
\* event and not exactly one StoppedEvent, one StoppedEvent of an unhandled
\* reason, several breakpoint events, or one whose hitBreakpointIds is
\* missing or null
HasUnexpectedShape(view) ==
    LET stops  == {k \in 1..Len(view.events) : view.events[k].type = "StoppedEvent"}
        bstops == {k \in stops : view.events[k].reason = "breakpoint"}
    IN  /\ view.kind = "StoppedDebuggerView"
        /\ \/ view.frames = <<>>
           \/ bstops = {} /\ Cardinality(stops) # 1
           \/ bstops = {} /\ \E k \in stops : view.events[k].reason # "exception"
           \/ Cardinality(bstops) > 1
           \/ \E k \in bstops : \/ ~view.events[k].hasHitBreakpointIds
                                \/ IsNone(view.events[k].hitBreakpointIds)

\* C12: when launch or continue_execution is answered with a stop view of an
\* unexpected shape, the loop's next step is its continue_execution call.
C12_UnexpectedShapeContinues ==
    [][(/\ pc \in {"launch", "continue"}
        /\ req' = pc
        /\ answered'
        /\ pc' # "raised"
        /\ HasUnexpectedShape(stopped'))
           => pc' = "continue"]_vars

-----------------------------------------------------------------------------
(* Properties of the registration *)

\* the answer acknowledges the registration: a successful
\* SetBreakpointsResponse whose last breakpoint carries an id
Acknowledges(resp) ==
    /\ resp.kind = "SetBreakpointsResponse"
    /\ resp.success
    /\ resp.breakpoints # <<>>
    /\ resp.breakpoints[Len(resp.breakpoints)] # None

AckId(resp) == resp.breakpoints[Len(resp.breakpoints)][1]

\* the ids of the reports, in the order the result lists them
ReportIds(reps) == [k \in 1..Len(reps) |-> reps[k].id]

\* a registration step that is not left waiting for its answer
RegistrationStep == pc = "set_breakpoint" /\ pc' # "blocked"

\* C13, as stated: a report made for an acknowledged spec is still held when
\* registration goes on and ends, whatever ids the adapter assigns.
C13_ReportForEveryAcknowledgedSpec ==
    [][RegistrationStep =>
          \A k \in 1..Len(reports) : \E l \in 1..Len(reports') : reports'[l] = reports[k]]_vars

\* C13, as the code has it: an acknowledged id is bound to the spec it was
\* acknowledged for last, and once registration is done the result holds
\* one report per acknowledged id, built from the file and line of the spec
\* the id is bound to, with hit_times 0 and no hits.
C13_ReportPerAcknowledgedId ==
    /\ [][RegistrationStep =>
            id_to_spec' = IF Acknowledges(response')
                          THEN (AckId(response') :> si) @@ id_to_spec
                          ELSE id_to_spec]_vars
    /\ [](pc = "launch" =>
            /\ Keys(reports) = DOMAIN id_to_spec
            /\ Len(reports) = Cardinality(DOMAIN id_to_spec)
            /\ \A k \in 1..Len(reports) :
                  LET spec == breakpoints[id_to_spec[reports[k].id]]
                  IN  reports[k] = [id |-> reports[k].id,
                                    file_path |-> Val(file_path(spec)),
                                    line |-> Val(line_no(spec)),
                                    function_name |-> "",
                                    hit_times |-> 0,
                                    hits_info |-> <<>>])

\* registration is done for three specs, the third acknowledged with the id
\* of the first
C13_Witness ==
    /\ pc = "launch"
    /\ Len(breakpoints) = 3
    /\ Len(reports) = 2
    /\ id_to_spec = (1 :> 3) @@ (2 :> 2)

C17_ReportsInRegistrationOrder ==
    \A k, l \in 1..Len(reports) :
        k < l => id_to_spec[reports[k].id] < id_to_spec[reports[l].id]

\* C17, as the code has it: the reports are listed in the order in which
\* their ids were acknowledged first; an id acknowledged again keeps its
\* place, and nothing after the registration changes the order.
C17_ReportsInFirstAcknowledgementOrder ==
    [][pc' \notin {"raised", "blocked"} =>
          ReportIds(reports') =
              IF /\ pc = "set_breakpoint"
                 /\ Acknowledges(response')
                 /\ AckId(response') \notin Keys(reports)
              THEN Append(ReportIds(reports), AckId(response'))
              ELSE ReportIds(reports)]_vars

\* a returned result whose first report belongs to the third spec and whose
\* second report belongs to the second spec
C17_Witness ==
    /\ Returned
    /\ Len(reports) = 2
    /\ id_to_spec[reports[1].id] = 3
    /\ id_to_spec[reports[2].id] = 2

-----------------------------------------------------------------------------
(* Properties of the recording of hits *)

\* the ids the breakpoint event of the current stop lists
StopIds == LET k == CHOOSE k \in 1..Len(stopped.events) :
                        /\ stopped.events[k].type = "StoppedEvent"
                        /\ stopped.events[k].reason = "breakpoint"
           IN  stopped.events[k].hitBreakpointIds[1]

\* the report the result holds under id
ReportOf(reps, id) == reps[CHOOSE k \in 1..Len(reps) : reps[k].id = id]

\* C15: whatever an evaluate request is answered with, and also when it
\* raises, nothing is raised, exactly one pair with the expression's name is
\* recorded (with value <runtime_value_unavailable> when the call raised),
\* the next expression of the hit is evaluated next, and after the last one
\* the hit is appended and the loop goes on to the next id of the stop or to
\* its continue_execution; no step inside a hit ends the session.
C15_EvaluateNeverAborts ==
    /\ [][(pc = "evaluate" /\ pc' # "blocked") =>
            LET id    == StopIds[bi]
                spec  == breakpoints[id_to_spec[id]]
                var   == spec.inline_expr[vi]
                last  == Len(spec.inline_expr)
                hit   == IF vi < last THEN hit_info'
                         ELSE ReportOf(reports', id).hits_info[Len(ReportOf(reports', id).hits_info)]
                pairs == hit.inline_expr
            IN  /\ raised' = "none"
                /\ req' = "evaluate"
                /\ Len(pairs) = vi
                /\ SubSeq(pairs, 1, vi - 1) = hit_info.inline_expr
                /\ pairs[vi].name = var
                /\ response'.kind = "raise" => pairs[vi].value = "<runtime_value_unavailable>"
                /\ hit.callstack = hit_info.callstack
                /\ IF vi < last
                   THEN pc' = "evaluate" /\ vi' = vi + 1 /\ bi' = bi /\ reports' = reports
                   ELSE /\ Len(ReportOf(reports', id).hits_info)
                              = Len(ReportOf(reports, id).hits_info) + 1
                        /\ pc' \in {"continue", "remove", "evaluate"}
                        /\ pc' # "continue" => bi' > bi]_vars
    /\ [][(pc \in {"remove", "evaluate"}) =>
            pc' \in {"continue", "remove", "evaluate", "blocked"}]_vars

\* the loop is at its continue_execution after a hit whose first evaluate
\* raised and whose second was answered with an error
C15_Witness ==
    /\ pc = "continue"
    /\ req = "evaluate"
    /\ \E k \in 1..Len(reports) :
          /\ reports[k].hits_info # <<>>
          /\ LET pairs == reports[k].hits_info[Len(reports[k].hits_info)].inline_expr
             IN  /\ Len(pairs) = 2
                 /\ pairs[1].value = "<runtime_value_unavailable>"
                 /\ pairs[2].value = "<use of undeclared identifier 'sum'>"

C18_NoCallstackUnlessAsked ==
    \A k \in 1..Len(reports) :
        \A h \in 1..Len(reports[k].hits_info) :
            ~breakpoints[id_to_spec[reports[k].id]].print_call_stack
                => reports[k].hits_info[h].callstack = ""

\* a returned result with a hit of a spec that did not ask for the call
\* stack, and a hit with a call stack of a spec that did
C18_Witness ==
    /\ Returned
    /\ \E k \in 1..Len(reports) :
          /\ ~breakpoints[id_to_spec[reports[k].id]].print_call_stack
          /\ reports[k].hits_info # <<>>
    /\ \E k \in 1..Len(reports) :
          /\ breakpoints[id_to_spec[reports[k].id]].print_call_stack
          /\ reports[k].hits_info # <<>>
          /\ reports[k].hits_info[1].callstack # ""

-----------------------------------------------------------------------------
(* Properties of the teardown *)

\* C19: when the stop loop is left, for whichever reason, one terminate
\* request is sent; nothing is sent after it; the stdio files are read into
\* the result only after it was answered, and every returned result has
\* them read.
C19_TerminateIsLastRequest ==
    /\ [][/\ req # "terminate"
          /\ pc = "terminate" <=> req' = "terminate"]_vars
    /\ [](stdio_read => (pc = "done" /\ req = "terminate" /\ answered))
    /\ [](Returned => (stdio_read /\ req = "terminate" /\ answered))

\* a result returned after the loop was left on an exception stop
C19_Witness ==
    /\ Returned
    /\ ~IsNone(signal)
    /\ req = "terminate"
    /\ stdio_read

\* C20: when _run_dap has returned or raised, every temp file that was
\* created is unlinked: stdout and stderr always, stdin when input was
\* supplied.
C20_TempFilesUnlinked ==
    pc \in {"done", "raised"} =>
        /\ files.stdout = "unlinked"
        /\ files.stderr = "unlinked"
        /\ files.stdin = IF IsNone(stdin_bytes) THEN "none" ELSE "unlinked"

\* an adapter call raised in a run that was given input
C20_Witness ==
    /\ pc = "raised"
    /\ raised = "AdapterError"
    /\ ~IsNone(stdin_bytes)
    /\ files.stdin = "unlinked"

-----------------------------------------------------------------------------
(* Specs that share a file and line *)

SameFileLine(a, b) ==
    /\ file_path(a) = file_path(b)
    /\ line_no(a) = line_no(b)

\* the registration step rebinds an id held by an earlier spec of the same
\* file and line
RebindsSharedId ==
    /\ RegistrationStep
    /\ Acknowledges(response')
    /\ AckId(response') \in DOMAIN id_to_spec
    /\ id_to_spec[AckId(response')] # si
    /\ SameFileLine(breakpoints[id_to_spec[AckId(response')]], breakpoints[si])

\* C21, as stated: when a spec is acknowledged with the id an earlier spec of
\* the same file and line already holds, the id stays with the earlier spec,
\* so that the first of them receives the hits recorded for the id.
C21_FirstSharingSpecReceivesHits ==
    [][RebindsSharedId =>
          id_to_spec'[AckId(response')] = id_to_spec[AckId(response')]]_vars

\* C21, as the code has it: when a spec is acknowledged with the id an
\* earlier spec of the same file and line already holds, the id is rebound to
\* the later spec and the earlier spec's report is replaced by a fresh one in
\* the same place, so one report is held for the id; every hit recorded for
\* the id carries the expressions of the spec the id is bound to, the last
\* one acknowledged with it, and a callstack only if that spec asks for one.
C21_LastSharingSpecReceivesHits ==
    /\ [][RebindsSharedId =>
            /\ id_to_spec'[AckId(response')] = si
            /\ ReportIds(reports') = ReportIds(reports)
            /\ ReportOf(reports', AckId(response')).hit_times = 0
            /\ ReportOf(reports', AckId(response')).hits_info = <<>>]_vars
    /\ [](pc \notin {"raised", "blocked"} =>
            \A k \in 1..Len(reports) :
                \A h \in 1..Len(reports[k].hits_info) :
                    LET spec == breakpoints[id_to_spec[reports[k].id]]
                        hit  == reports[k].hits_info[h]
                    IN  /\ [e \in 1..Len(hit.inline_expr) |-> hit.inline_expr[e].name]
                              = spec.inline_expr
                        /\ hit.callstack # "" => spec.print_call_stack)

\* a run over three specs has returned: the first and the third share a file
\* and line and differ in their expressions, both were acknowledged with the
\* same id (its report precedes the one of the second spec, and the id is
\* bound to the third), and the hit recorded for the id carries the third
\* spec's (empty) expression list
C21_Witness ==
    /\ Returned
    /\ Len(breakpoints) = 3
    /\ SameFileLine(breakpoints[1], breakpoints[3])
    /\ breakpoints[1].inline_expr # breakpoints[3].inline_expr
    /\ Len(reports) = 2
    /\ id_to_spec = (reports[1].id :> 3) @@ (reports[2].id :> 2)
    /\ reports[1].hits_info # <<>>
    /\ reports[1].hits_info[1].inline_expr = <<>>

-----------------------------------------------------------------------------
(* The order of the adapter requests *)

\* the stage of the session a position belongs to
PhaseOf(p) ==
    CASE p = "initialize"                                -> 1
      [] p = "set_breakpoint"                            -> 2
      [] p = "launch"                                    -> 3
      [] p \in {"continue", "remove", "evaluate", "spin"} -> 4
      [] p = "terminate"                                 -> 5
      [] OTHER                                           -> 6

\* C22, as stated: every spec's registration step sends a set_breakpoint
\* request, and the launch step sends the launch request, so that a run has
\* one set_breakpoint per spec and exactly one launch.
C22_OneSetBreakpointPerSpecOneLaunch ==
    [][/\ pc = "set_breakpoint" => req' = "set_breakpoint"
       /\ pc = "launch" => req' = "launch"]_vars

\* C22, as the code has it: a request is only sent from its own position,
\* the positions follow the order initialize, set_breakpoint, launch, stop
\* loop (continue, evaluate, remove), terminate and never go back, the
\* initialize and launch positions are left in one step, each registration
\* step moves on to the next spec, the terminate position is left for the
\* end of the run, and no step is taken after the end. So initialize comes
\* first, at most one set_breakpoint is sent per spec (none for a spec whose
\* line is not a number) and none after launch, at most one launch is sent
\* (none when the budget is already spent), continue, evaluate and remove are
\* sent only inside the stop loop, and nothing is sent after terminate.
C22_RequestsFollowStateMachine ==
    [][/\ pc \notin {"done", "raised", "blocked"}
       /\ req' # "none" => req' = pc
       /\ PhaseOf(pc) <= PhaseOf(pc')
       /\ pc = "initialize" => pc' # "initialize"
       /\ (pc = "set_breakpoint" /\ pc' \notin {"raised", "blocked"}) =>
              /\ si' = si + 1
              /\ pc' \in {"set_breakpoint", "launch"}
              /\ pc' = "launch" <=> si' > Len(breakpoints)
       /\ pc = "launch" => pc' # "launch"
       /\ pc = "terminate" => pc' \in {"done", "raised", "blocked"}]_vars

\* a run over a spec whose line is not a number and a spec that is hit has
\* returned: initialize, one set_breakpoint, launch, remove, evaluate,
\* continue and terminate were sent
C22_Witness ==
    /\ Returned
    /\ req = "terminate"
    /\ Len(breakpoints) = 2
    /\ IsNone(line_no(breakpoints[1]))
    /\ Len(reports) = 1
    /\ reports[1].hit_times >= breakpoints[2].hit_limit
    /\ reports[1].hits_info # <<>>
    /\ reports[1].hits_info[1].inline_expr # <<>>
    /\ stopped.kind = "EventListView"

-----------------------------------------------------------------------------
(* How a stop is told apart *)

\* launch or continue_execution is answered in this step
ReceiveStep ==
    /\ pc \in {"launch", "continue"}
    /\ req' = pc
    /\ answered'
    /\ pc' # "raised"

\* the StoppedEvents of a view, and those with reason "breakpoint", in order
StopEvents(view) == SelectSeq(view.events, LAMBDA e : e.type = "StoppedEvent")
BreakpointEvents(view) ==
    SelectSeq(view.events, LAMBDA e : e.type = "StoppedEvent" /\ e.reason = "breakpoint")

HasFrames(view) == view.kind = "StoppedDebuggerView" /\ view.frames # <<>>

\* C23, as stated: for a stop view with frames, the reason of the first
\* StoppedEvent decides: "breakpoint" leaves the signal alone and stays in
\* the loop, "exception" records that event's description as the signal and
\* leaves the loop, any other reason leaves reports and signal alone and
\* continues.
C23_FirstStoppedEventDecides ==
    [][(ReceiveStep /\ HasFrames(stopped') /\ StopEvents(stopped') # <<>>) =>
          LET first == StopEvents(stopped')[1]
          IN  /\ first.reason = "breakpoint" =>
                    signal' = signal /\ pc' # "terminate"
              /\ first.reason = "exception" =>
                    signal' = first.description /\ pc' = "terminate"
              /\ first.reason \notin {"breakpoint", "exception"} =>
                    pc' = "continue" /\ reports' = reports /\ signal' = signal]_vars

\* C23, as the code has it: for a stop view with frames, a StoppedEvent with
\* reason "breakpoint" anywhere among the events makes the stop a breakpoint
\* stop, whatever precedes it: no signal is recorded and the loop is not
\* left. Without one, the stop records a signal and leaves the loop exactly
\* when the view has a single StoppedEvent and its reason is "exception";
\* with no StoppedEvent, with several, or with another reason, reports and
\* signal are left alone and the loop continues.
C23_BreakpointEventDecidesFirst ==
    [][(ReceiveStep /\ HasFrames(stopped')) =>
          LET stops  == StopEvents(stopped')
              bstops == BreakpointEvents(stopped')
          IN  IF bstops # <<>>
              THEN signal' = signal /\ pc' # "terminate"
              ELSE IF Len(stops) = 1 /\ stops[1].reason = "exception"
              THEN signal' = stops[1].description /\ pc' = "terminate"
              ELSE pc' = "continue" /\ reports' = reports /\ signal' = signal]_vars

\* a stop whose first StoppedEvent is an exception and whose second is a
\* breakpoint: no signal is recorded and a hit of the stop is being recorded
C23_Witness ==
    /\ pc \in {"remove", "evaluate"}
    /\ HasFrames(stopped)
    /\ Len(StopEvents(stopped)) = 2
    /\ StopEvents(stopped)[1].reason = "exception"
    /\ StopEvents(stopped)[2].reason = "breakpoint"
    /\ IsNone(signal)
    /\ bi >= 1

-----------------------------------------------------------------------------
(* Stops that report several hits at once *)

\* the ids the breakpoint StoppedEvents of a view list
ListedIds(view) ==
    LET bstops == BreakpointEvents(view)
    IN  { id \in 1..3 : \E k \in 1..Len(bstops) :
            /\ bstops[k].hasHitBreakpointIds
            /\ ~IsNone(bstops[k].hitBreakpointIds)
            /\ \E i \in 1..Len(Val(bstops[k].hitBreakpointIds)) :
                  Val(bstops[k].hitBreakpointIds)[i] = id }

\* the hits the stop at hand has added to report k
HitsOfStop(k) == reports[k].hit_times - hit_times_before[k]

\* the loop is through with the stop at hand and about to continue
StopHandled == pc = "continue" /\ HasFrames(stopped)

-----------------------------------------------------------------------------
(* The removal of a breakpoint at its hit limit *)

\* C25: a step that increments a report's hit_times to its spec's hit_limit
\* or beyond stops at the remove_breakpoint request for that id, and the
\* request is sent only there, for a hit that is counted and not yet
\* appended; whatever the request is answered with (success, success false,
\* an ErrorResponse, an exception), nothing is raised, the count is kept, and
\* the hit goes on: it is appended at once for a spec without expressions,
\* otherwise its first expression is evaluated next.
C25_RemoveAtLimitNeverAborts ==
    /\ [](pc = "remove" =>
            LET report == ReportOf(reports, StopIds[bi])
            IN  /\ report.hit_times >= SpecOf(StopIds[bi]).hit_limit
                /\ Len(report.hits_info) = report.hit_times - 1)
    /\ [][req' = "remove" => pc = "remove"]_vars
    /\ [][(pc \in {"launch", "continue", "remove", "evaluate"}
           /\ pc' \notin {"raised", "blocked"}) =>
            \A k \in 1..Len(reports) :
                (/\ reports'[k].hit_times = reports[k].hit_times + 1
                 /\ reports'[k].hit_times >= SpecOf(reports[k].id).hit_limit)
                    => /\ pc' = "remove"
                       /\ StopIds'[bi'] = reports[k].id]_vars
    /\ [][(pc = "remove" /\ pc' # "blocked") =>
            LET id   == StopIds[bi]
                spec == SpecOf(id)
            IN  /\ raised' = "none"
                /\ req' = "remove"
                /\ pc' \in {"evaluate", "remove", "continue"}
                /\ ReportOf(reports', id).hit_times = ReportOf(reports, id).hit_times
                /\ IF spec.inline_expr = <<>>
                   THEN Len(ReportOf(reports', id).hits_info)
                            = Len(ReportOf(reports, id).hits_info) + 1
                   ELSE /\ pc' = "evaluate"
                        /\ bi' = bi
                        /\ vi' = 1
                        /\ hit_info'.inline_expr = <<>>]_vars

\* a remove_breakpoint request raised, and the hit it belongs to, the one
\* that reached the limit, is appended all the same: the stop is handled
C25_Witness ==
    /\ StopHandled
    /\ req = "remove"
    /\ response.kind = "raise"
    /\ \E k \in 1..Len(reports) :
          /\ HitsOfStop(k) = 1
          /\ reports[k].hit_times >= SpecOf(reports[k].id).hit_limit
          /\ Len(reports[k].hits_info) = reports[k].hit_times

-----------------------------------------------------------------------------
(* Where a report says its breakpoint is *)

\* the source path of a frame, None when the frame has no source, or its
\* source no path, or an empty one
PathOfFrame(frame) ==
    IF IsNone(frame.source) THEN None
    ELSE IF IsNone(Val(frame.source).path) THEN None
    ELSE IF Val(Val(frame.source).path) = <<>> THEN None
    ELSE Val(frame.source).path

\* the hit of the stop at hand is appended to report k
HitOfStopAppended(k) ==
    /\ HasFrames(stopped)
    /\ HitsOfStop(k) = 1
    /\ Len(reports[k].hits_info) = reports[k].hit_times

\* report k is as its registration made it
AsRegistered(k) ==
    /\ reports[k].file_path = Val(file_path(SpecOf(reports[k].id)))
    /\ reports[k].line = Val(line_no(SpecOf(reports[k].id)))

\* C26, as stated: once a hit is recorded, the report's file_path and line
\* are both those of the top frame's source at that hit, for every top
\* frame; a report without a hit has the spec's resolved file and line.
C26_FileAndLineOfTopFrame ==
    pc \notin {"raised", "blocked"} =>
        \A k \in 1..Len(reports) :
            /\ HitOfStopAppended(k) =>
                  /\ PathOfFrame(stopped.frames[1]) = Some(reports[k].file_path)
                  /\ reports[k].line = stopped.frames[1].line
            /\ reports[k].hit_times = 0 => AsRegistered(k)

\* C26, as the code has it: once a hit is recorded, the report's line is the
\* line of the top frame at that hit, and its file_path is the top frame's
\* source path if the frame has a source with a non-empty path; a report
\* without a hit has the spec's resolved file and line; and file_path only
\* ever changes to the source path of the top frame of the stop at hand, so
\* that after a hit whose top frame has no source path it keeps the value it
\* had (the spec's file, or the path of an earlier hit) next to the new line.
C26_LineOfTopFrameAndItsPathIfAny ==
    /\ [](pc \notin {"raised", "blocked"} =>
            \A k \in 1..Len(reports) :
                /\ HitOfStopAppended(k) =>
                      /\ reports[k].line = stopped.frames[1].line
                      /\ ~IsNone(PathOfFrame(stopped.frames[1])) =>
                            PathOfFrame(stopped.frames[1]) = Some(reports[k].file_path)
                /\ reports[k].hit_times = 0 => AsRegistered(k))
    /\ [][(pc \in {"launch", "continue", "remove", "evaluate"}
           /\ pc' \notin {"raised", "blocked"}) =>
            \A k \in 1..Len(reports) :
                reports'[k].file_path # reports[k].file_path =>
                    /\ HasFrames(stopped')
                    /\ PathOfFrame(stopped'.frames[1]) = Some(reports'[k].file_path)]_vars

\* the first hit of a report is recorded at a stop whose top frame has no
\* source path: the report has the frame's line, which is not the spec's, and
\* still the spec's file
C26_Witness ==
    /\ StopHandled
    /\ IsNone(PathOfFrame(stopped.frames[1]))
    /\ \E k \in 1..Len(reports) :
          /\ HitOfStopAppended(k)
          /\ reports[k].hit_times = 1
          /\ reports[k].line = stopped.frames[1].line
          /\ reports[k].line # Val(line_no(SpecOf(reports[k].id)))
          /\ reports[k].file_path = Val(file_path(SpecOf(reports[k].id)))

-----------------------------------------------------------------------------
(* Which stops change a report *)

\* a stop of a kind that names no hit of a registered spec: no frames, no
\* breakpoint StoppedEvent and not a single exception, or a single breakpoint
\* StoppedEvent whose hitBreakpointIds lists only ids without a report
NamesNoRegisteredHit(view, reps) ==
    /\ view.kind = "StoppedDebuggerView"
    /\ \/ view.frames = <<>>
       \/ /\ BreakpointEvents(view) = <<>>
          /\ ~(Len(StopEvents(view)) = 1 /\ StopEvents(view)[1].reason = "exception")
       \/ /\ Len(BreakpointEvents(view)) = 1
          /\ BreakpointEvents(view)[1].hasHitBreakpointIds
          /\ ~IsNone(BreakpointEvents(view)[1].hitBreakpointIds)
          /\ \A k \in 1..Len(reps) : reps[k].id \notin ListedIds(view)

\* C27: in the stop loop a report changes only in the handling of a stop
\* with frames whose breakpoint StoppedEvent lists the report's own id; a
\* stop with no frames, a stop for another reason (entry, step, ...) and a
\* breakpoint stop whose ids have no registered spec leave every report as
\* it was, and the next request is continue_execution.
C27_OnlyOwnIdChangesReport ==
    /\ [][(pc \in {"launch", "continue", "remove", "evaluate"}
           /\ pc' \notin {"raised", "blocked"}) =>
            /\ Len(reports') = Len(reports)
            /\ \A k \in 1..Len(reports) :
                  reports'[k] # reports[k] =>
                      /\ HasFrames(stopped')
                      /\ reports[k].id \in ListedIds(stopped')
                      /\ reports'[k].id = reports[k].id]_vars
    /\ [][(ReceiveStep /\ NamesNoRegisteredHit(stopped', reports)) =>
            /\ reports' = reports
            /\ pc' = "continue"]_vars

\* a breakpoint stop that lists ids is handled while the one report that is
\* held belongs to another id: it has no hit
C27_Witness ==
    /\ StopHandled
    /\ ListedIds(stopped) # {}
    /\ Len(BreakpointEvents(stopped)) = 1
    /\ Len(reports) = 1
    /\ reports[1].id \notin ListedIds(stopped)
    /\ reports[1].hit_times = 0
    /\ reports[1].hits_info = <<>>

-----------------------------------------------------------------------------
(* The budget as one deadline *)

\* the budget is spent: the time since start_ts has reached timeout_sec
BudgetSpent == ~IsNone(timeout_sec) /\ clock >= Val(timeout_sec)

\* C28: the time taken by remove_breakpoint and evaluate requests counts
\* towards the one deadline (the clock is never set back and the budget never
\* changes), and whenever the budget is spent when launch or
\* continue_execution is due, nothing is sent, timeout is set at once with
\* reports, signal and clock as they are, and the loop is left for terminate;
\* timeout then stays set as long as the run goes on.
C28_SpentBudgetRefusesGatedCall ==
    /\ [][(pc \in {"launch", "continue"} /\ BudgetSpent) =>
            /\ req' = "none"
            /\ timeout'
            /\ pc' = "terminate"
            /\ clock' = clock
            /\ reports' = reports
            /\ signal' = signal]_vars
    /\ [][(pc \in {"launch", "continue", "remove", "evaluate"}
           /\ pc' \notin {"raised", "blocked"}) =>
            /\ clock' >= clock
            /\ timeout_sec' = timeout_sec]_vars
    /\ [][(timeout /\ pc' \notin {"raised", "blocked"}) => timeout']_vars

\* a budget of 1 is spent inside a hit (launch and continue only return
\* within the budget), and the continue_execution that was due after the hit
\* is not sent: timeout is set and terminate is next
C28_Witness ==
    /\ pc = "terminate"
    /\ timeout
    /\ req = "none"
    /\ timeout_sec = Some(1)
    /\ clock = 1
    /\ HasFrames(stopped)
    /\ \E k \in 1..Len(reports) : HitOfStopAppended(k)

-----------------------------------------------------------------------------
(* A run without a budget *)

\* C29: when timeout_sec is None, timeout is false in every state of the
\* run, the returned result included.
C29_NoBudgetNoTimeout ==
    IsNone(timeout_sec) => ~timeout

\* a run without a budget has returned with a recorded hit, and timeout is
\* false
C29_Witness ==
    /\ Returned
    /\ IsNone(timeout_sec)
    /\ ~timeout
    /\ \E k \in 1..Len(reports) : reports[k].hits_info # <<>>

-----------------------------------------------------------------------------
(* The budget RuntimeDebugger.run hands on *)

\* C30, as stated: when the session is entered through RuntimeDebugger.run
\* with a timeout_sec that is not None, the budget the gate has when launch
\* or continue_execution is due is the value given; with timeout_sec = 0 the
\* launch request is never sent, and a run that returns has timeout set.
C30_RunAppliesEveryTimeout ==
    entry.point = "run" =>
        /\ (pc \in {"launch", "continue"} /\ ~IsNone(entry.timeout_sec)) =>
              timeout_sec = entry.timeout_sec
        /\ entry.timeout_sec = Some(0) =>
              /\ req # "launch"
              /\ Returned => timeout

-----------------------------------------------------------------------------
(* One conversation with the adapter *)

\* C31, as stated: a request is only sent when the request before it has
\* completed: the adapter answered it, or it raised.
C31_OneRequestOutstanding ==
    [][req' # "none" => answered]_vars

\* C31, as the code has it: a request is only sent when the await of the
\* request before it has ended: the adapter answered it, it raised, or it was
\* a launch or continue_execution given up at the deadline; in that last
\* case the request is still unanswered, timeout is set, and the only
\* request that follows is terminate. A request that neither gets an answer
\* nor has a deadline is followed by nothing.
C31_NextRequestAfterAwaitEnded ==
    /\ [][req' # "none" =>
            \/ answered
            \/ /\ timeout
               /\ req \in {"launch", "continue"}
               /\ pc = "terminate"
               /\ req' = "terminate"]_vars
    /\ [](~answered => \/ pc = "blocked"
                       \/ pc = "terminate" /\ timeout /\ req \in {"launch", "continue"})

\* a run without specs and with a budget of 1 has returned with timeout set:
\* the clock can only have reached the deadline inside a launch or a
\* continue_execution, which was given up unanswered, and terminate was sent
\* after it and answered
C31_Witness ==
    /\ Returned
    /\ breakpoints = <<>>
    /\ timeout_sec = Some(1)
    /\ timeout
    /\ req = "terminate"
    /\ answered

-----------------------------------------------------------------------------
(* The order of the teardown *)

\* C32, as stated: the stdio files are read before the adapter is
\* terminated: when the terminate request is sent they have been read.
C32_ReadBeforeTerminate ==
    [][req' = "terminate" => stdio_read]_vars

\* C32, as the code has it: when the terminate request is sent, the stdio
\* files have not been read and no temp file is unlinked; the files are read
\* only in the step in which terminate is answered, while they still exist,
\* and are unlinked after that, so a run that returns has read them; when
\* terminate raises they are unlinked without having been read.
C32_TerminateThenReadThenUnlink ==
    /\ [][req' = "terminate" =>
            /\ ~stdio_read
            /\ files.stdout = "created"
            /\ files.stderr = "created"
            /\ files.stdin # "unlinked"]_vars
    /\ [][(stdio_read' /\ ~stdio_read) =>
            /\ req' = "terminate"
            /\ answered'
            /\ pc' = "done"
            /\ files'.stdout = "unlinked"
            /\ files'.stderr = "unlinked"]_vars
    /\ [](Returned => stdio_read)
    /\ [](pc = "raised" => ~stdio_read /\ files.stdout = "unlinked" /\ files.stderr = "unlinked")

\* a run that was given input has returned: terminate was answered, the
\* files were read, and all three are unlinked
C32_Witness ==
    /\ Returned
    /\ req = "terminate"
    /\ stdio_read
    /\ files = [stdin |-> "unlinked", stdout |-> "unlinked", stderr |-> "unlinked"]

-----------------------------------------------------------------------------
(* Locations that do not parse *)

\* the location is file:line with a positive integer line
ParsesAsFileLine(spec) ==
    /\ Unpacks(spec.location)
    /\ ~IsNone(ParseInt(RSplit(spec.location)[2]))
    /\ Val(ParseInt(RSplit(spec.location)[2])) > 0

\* C33, as stated: no ValueError leaves the run, and the registration step of
\* a spec whose location is not file:line with a positive integer line sends
\* no request, makes no report and moves on to the next spec.
C33_UnparsableSpecIsSkipped ==
    /\ [](raised # "ValueError")
    /\ [][(pc = "set_breakpoint" /\ ~ParsesAsFileLine(breakpoints[si])) =>
            /\ req' = "none"
            /\ reports' = reports
            /\ si' = si + 1]_vars

-----------------------------------------------------------------------------
(* The resolution of a spec's file *)

\* the file a location is resolved to by the first rule that matches, None
\* when no rule matches: (1) an absolute file that exists, (2) the file
\* under the repo dir if one is given and the file exists there, (3) the
\* first entry of the source map with the file's name
ResolvedByFirstRule(loc, repo_dir, source_map) ==
    LET fp == RSplit(loc)[1]
        matching == IF IsNone(source_map) THEN {}
                    ELSE {k \in 1..Len(Val(source_map)) :
                            PathName(Val(source_map)[k]) = PathName(fp)}
    IN  IF IsAbsolute(fp) /\ fp \in ExistingFiles THEN Some(fp)
        ELSE IF ~IsNone(repo_dir)
                /\ (IF IsAbsolute(fp) THEN fp ELSE Val(repo_dir) \o fp) \in ExistingFiles
        THEN Some(IF IsAbsolute(fp) THEN fp ELSE Val(repo_dir) \o fp)
        ELSE IF matching # {}
        THEN Some(Val(source_map)[CHOOSE k \in matching : \A l \in matching : k <= l])
        ELSE None

\* the location the rules give: the resolved file with the line part as it
\* was, or the location as it was
LocationByFirstRule(loc, repo_dir, source_map) ==
    IF IsNone(ResolvedByFirstRule(loc, repo_dir, source_map)) THEN loc
    ELSE Val(ResolvedByFirstRule(loc, repo_dir, source_map)) \o <<":">> \o RSplit(loc)[2]

\* the locations of all specs a run is given that split into file and line
SplittingLocations ==
    {loc \in UNION {{bps[i].location : i \in 1..Len(bps)} : bps \in SpecLists \cup RunSpecLists} :
        Unpacks(loc)}

\* C34: for every location that splits into file and line, every repo dir
\* and every source map (none included), the location _normalize_locations
\* writes is the one the first matching rule gives (an absolute file that
\* exists is kept; else the file under the repo dir if one is given and the
\* file exists there; else the first source-map entry with the file's name;
\* else the location as it was), with the line part as it was; and the step
\* that normalizes rewrites every spec's location that way and nothing else
\* of the spec.
C34_ResolvedByFirstMatchingRule ==
    /\ [](\A loc \in SplittingLocations, repo_dir \in RepoDirs,
             source_map \in {None} \cup {Some(m) : m \in SourceMaps} :
            /\ NormalizeOne(loc, repo_dir, source_map)
                  = LocationByFirstRule(loc, repo_dir, source_map)
            /\ RSplit(NormalizeOne(loc, repo_dir, source_map))[2] = RSplit(loc)[2])
    /\ [][(pc = "initialize" /\ pc' \notin {"raised", "blocked"}) =>
            \E repo_dir \in RepoDirs, source_map \in SourceMaps :
                breakpoints' =
                    [i \in 1..Len(breakpoints) |->
                        [breakpoints[i] EXCEPT !.location =
                            LocationByFirstRule(@, repo_dir, Some(source_map))]]]_vars

\* the specs are normalized, and the first one is at /src/b.c, which no spec
\* was given with: the first b.c of the source map, taken for a b.c that is
\* neither an existing absolute file nor in the repo dir
C34_Witness ==
    /\ pc = "set_breakpoint"
    /\ req = "initialize"
    /\ entry.point = "run"
    /\ breakpoints[1].location = <<"/", "src", "b.c", ":", "7">>


-----------------------------------------------------------------------------
(* C35: the tags recorded for evaluation errors *)

\* the tag table in its order; "folds" tells whether the trigger is looked
\* for in the lower-cased text
TagTable ==
    << [trigger |-> "use of undeclared identifier", folds |-> FALSE],
       [trigger |-> "no member named", folds |-> FALSE],
       [trigger |-> "cannot be used", folds |-> FALSE],
       [trigger |-> "not found", folds |-> TRUE],
       [trigger |-> "undefined", folds |-> TRUE] >>

TagOfRow(k, var) ==
    CASE k = 1 -> "<use of undeclared identifier '" \o var \o "'>"
      [] k = 2 -> "<no member named in " \o var \o ">"
      [] k = 3 -> "<" \o var \o " cannot be used>"
      [] k = 4 -> "<" \o var \o " not found>"
      [] k = 5 -> "<" \o var \o " undefined>"

\* the tag of the first row whose trigger occurs in the text, every trigger
\* folded when foldAll, else the rows that fold only
TagByTable(text, var, foldAll) ==
    LET occurs(k) == Contains(IF foldAll \/ TagTable[k].folds THEN Lower(text) ELSE text,
                              TagTable[k].trigger)
        rows == {k \in 1..Len(TagTable) : occurs(k)}
    IN  IF rows = {} THEN "<evaluation error for " \o var \o ">"
        ELSE TagOfRow(CHOOSE k \in rows : \A j \in rows : k <= j, var)

\* the value recorded by the step that got the answer to the evaluate of the
\* vi-th expression of the hit at hand: in the hit under construction, or in
\* the hit just appended to the report
ValueRecorded ==
    IF pc' = "evaluate" /\ bi' = bi THEN hit_info'.inline_expr[vi].value
    ELSE LET hits == ReportOf(reports', HitIds(stopped)[bi]).hits_info
         IN  hits[Len(hits)].inline_expr[vi].value

ExprAtHand == SpecOf(HitIds(stopped)[bi]).inline_expr[vi]

EvaluateGotAnswer == pc = "evaluate" /\ pc' \notin {"raised", "blocked"}

\* C35 as stated: the value recorded for an error response is the tag of the
\* first trigger, in table order, that occurs in the message whatever its
\* case, and <evaluation error for expr> when none occurs.
C35_TagOfFirstTriggerAnyCase ==
    [][(EvaluateGotAnswer /\ response'.kind = "ErrorResponse") =>
          ValueRecorded = TagByTable(IF IsNone(response'.message) THEN <<>>
                                     ELSE Val(response'.message), ExprAtHand, TRUE)]_vars

\* C35: the value recorded for an error response, or for an unsuccessful
\* evaluate response whose error has a format text, is the tag of the first
\* row of the table whose trigger occurs in the text, the first three
\* triggers looked for in the text as it is and "not found" and "undefined"
\* in the lower-cased text, and <evaluation error for expr> when none does;
\* an unsuccessful response without format text records <message> when its
\* error has a message, <error_no_details> when its error has neither, and
\* <evaluation_failed> when it has no body or no error.
C35_TagOfFirstTrigger ==
    [][EvaluateGotAnswer =>
          LET ev == response'
          IN  /\ ev.kind = "ErrorResponse" =>
                    ValueRecorded = TagByTable(IF IsNone(ev.message) THEN <<>>
                                               ELSE Val(ev.message), ExprAtHand, FALSE)
              /\ (ev.kind = "EvaluateResponse" /\ ~ev.success) =>
                    IF IsNone(ev.body) THEN ValueRecorded = "<evaluation_failed>"
                    ELSE IF IsNone(Val(ev.body).error) THEN ValueRecorded = "<evaluation_failed>"
                    ELSE LET e == Val(Val(ev.body).error)
                         IN  IF ~IsNone(e.format)
                             THEN ValueRecorded = TagByTable(Val(e.format), ExprAtHand, FALSE)
                             ELSE IF ~IsNone(e.message)
                             THEN ValueRecorded = "<" \o Val(e.message) \o ">"
                             ELSE ValueRecorded = "<error_no_details>"]_vars

\* evaluate was answered with an error response whose message has "Cannot Be
\* Used" and "Not Found" in capitals, and the hit holds the "not found" tag
C35_Witness ==
    /\ pc = "continue"
    /\ req = "evaluate"
    /\ response = ErrorResponse(Some(<<"Error:", "Cannot Be Used", "Not Found">>))
    /\ \E k \in 1..Len(reports) :
          /\ reports[k].hits_info # <<>>
          /\ LET pairs == reports[k].hits_info[Len(reports[k].hits_info)].inline_expr
             IN  pairs = <<InlineExprValue("p->x", "<p->x not found>")>>


-----------------------------------------------------------------------------
(* C36: the keys of id_to_spec and of result.reports *)

\* C36: while the coroutine runs and when it has returned, the reports are
\* one per key, the keys of result.reports are the keys of id_to_spec, and
\* an acknowledged registration leaves a report under the acknowledged id
\* that carries this id; from the step that sends launch on, no step that
\* goes on (the stop loop, a timeout, the teardown) changes the keys of
\* either map.
C36_SameKeysFixedAfterLaunch ==
    /\ [](pc \notin {"raised", "blocked"} =>
            /\ Cardinality(Keys(reports)) = Len(reports)
            /\ Keys(reports) = DOMAIN id_to_spec)
    /\ [][(RegistrationStep /\ Acknowledges(response')) =>
            /\ AckId(response') \in DOMAIN id_to_spec'
            /\ \E k \in 1..Len(reports') : reports'[k].id = AckId(response')]_vars
    /\ [][(pc \in {"launch", "continue", "remove", "evaluate", "terminate"}
           /\ pc' \notin {"raised", "blocked"}) =>
            /\ Keys(reports') = Keys(reports)
            /\ DOMAIN id_to_spec' = DOMAIN id_to_spec
            /\ Len(reports') = Len(reports)]_vars

\* a run that timed out in the stop loop has returned with two reports, one
\* of them with a recorded hit
C36_Witness ==
    /\ Returned
    /\ timeout
    /\ Len(reports) = 2
    /\ DOMAIN id_to_spec = {reports[1].id, reports[2].id}
    /\ \E k \in 1..2 : reports[k].hit_times > 0


-----------------------------------------------------------------------------
(* C37: when remove_breakpoint and evaluate are sent *)

\* the loop is in the body of a breakpoint stop it received, at an id of the
\* stop that has a spec and a report, whose hit it has counted
RecordingHit ==
    /\ Classify(stopped) = "hits"
    /\ bi \in 1..Len(HitIds(stopped))
    /\ HitIds(stopped)[bi] \in DOMAIN id_to_spec
    /\ HitIds(stopped)[bi] \in Keys(reports)
    /\ ReportOf(reports, HitIds(stopped)[bi]).hit_times >= 1

\* C37: a step after which the last request is remove_breakpoint or evaluate
\* is taken in the body of a received breakpoint stop, at an id whose hit is
\* being recorded, the request before it being the launch or
\* continue_execution that returned the stop or a remove_breakpoint or
\* evaluate of the same stop, answered; the request that follows is another
\* of the same stop (unless it is never answered) or continue_execution, or
\* none when the budget is spent and the loop is left for the teardown.
\* remove_breakpoint is sent for an
\* id before any of the hit's expressions is evaluated: with no value in the
\* hit, and after an evaluate only for a later id of the stop.
C37_RemoveAndEvaluateWithinRecordedStop ==
    /\ [][req' \in {"remove", "evaluate"} =>
            /\ pc = req'
            /\ req \in {"launch", "continue", "remove", "evaluate"}
            /\ answered
            /\ RecordingHit]_vars
    /\ [][(req \in {"remove", "evaluate"} /\ answered) =>
            /\ \/ req' \in {"remove", "evaluate", "continue"}
               \/ req' = "none" /\ timeout' /\ pc' = "terminate"
            /\ (req' \in {"remove", "evaluate"} /\ pc' # "blocked") => stopped' = stopped]_vars
    /\ [](pc = "remove" => vi = 0 /\ hit_info.inline_expr = <<>>)
    /\ [](pc = "evaluate" => SpecOf(HitIds(stopped)[bi]).inline_expr # <<>>
                             /\ Len(hit_info.inline_expr) = vi - 1)
    /\ [][(pc = "evaluate" /\ pc' = "remove") => bi' > bi]_vars
    /\ [][(pc = "remove" /\ pc' = "evaluate") => bi' = bi /\ vi' = 1]_vars

\* the breakpoint of a hit was removed, and then the hit's two expressions
\* were evaluated, before the loop went on to continue_execution
C37_Witness ==
    /\ pc = "continue"
    /\ req = "evaluate"
    /\ answered
    /\ Classify(stopped) = "hits"
    /\ \E k \in 1..Len(reports) :
          /\ reports[k].hit_times >= breakpoints[id_to_spec[reports[k].id]].hit_limit
          /\ reports[k].hits_info # <<>>
          /\ Len(reports[k].hits_info[Len(reports[k].hits_info)].inline_expr) = 2

====
